---------------------------- MODULE Spec2Model ----------------------------
(***************************************************************************)
(* A model of the Jira MCP server (src/unnamed/part_002, the revision with *)
(* both backends): backend selection, the Direct-API adapter and its auth  *)
(* resolution, the response normaliser, the branch orchestrator and the    *)
(* four composite tool handlers.                                           *)
(*                                                                         *)
(* JavaScript strings are sequences of one-character strings, so that      *)
(* trim, toLowerCase, includes and length are computed and not assumed.    *)
(* The value undefined is the one-element sequence <<"undefined">>, whose  *)
(* element is no character; null is <<"null">>; a JSON number is           *)
(* <<"number", digits...>>.                                                *)
(***************************************************************************)
EXTENDS Integers, Sequences, FiniteSets, TLC

\* ------------------------------------------------------------ strings

Undefined == <<"undefined">>

\* A JSON number (the numeric issue id of a create response).
NumId == <<"number", "1", "0">>

\* The value null.
Null == <<"null">>

IsString(v) == v \notin {Undefined, Null, NumId}

\* JavaScript truthiness of a value that is a string, a number, null or
\* undefined (the one number of the model is not 0).
Truthy(v) == v \notin {Undefined, Null, <<>>}

\* a || b
Or(a, b) == IF Truthy(a) THEN a ELSE b

Upper == <<"A","B","C","D","E","F","G","H","I","J","K","L","M",
           "N","O","P","Q","R","S","T","U","V","W","X","Y","Z">>
Lower == <<"a","b","c","d","e","f","g","h","i","j","k","l","m",
           "n","o","p","q","r","s","t","u","v","w","x","y","z">>

LowerChar(c) ==
  IF \E i \in 1..Len(Upper) : Upper[i] = c
  THEN Lower[CHOOSE i \in 1..Len(Upper) : Upper[i] = c]
  ELSE c

\* String.prototype.toLowerCase
ToLowerCase(s) == [i \in 1..Len(s) |-> LowerChar(s[i])]

IsSpace(c) == c \in {" ", "\t", "\n"}

RECURSIVE TrimStart(_)
TrimStart(s) ==
  IF s # <<>> /\ IsSpace(Head(s)) THEN TrimStart(Tail(s)) ELSE s

RECURSIVE TrimEnd(_)
TrimEnd(s) ==
  IF s # <<>> /\ IsSpace(s[Len(s)]) THEN TrimEnd(SubSeq(s, 1, Len(s) - 1)) ELSE s

\* String.prototype.trim
Trim(s) == TrimEnd(TrimStart(s))

\* String.prototype.includes
Includes(s, sub) ==
  \E i \in 1..(Len(s) - Len(sub) + 1) : SubSeq(s, i, i + Len(sub) - 1) = sub

\* String.prototype.startsWith / endsWith
StartsWith(s, p) == Len(s) >= Len(p) /\ SubSeq(s, 1, Len(p)) = p
EndsWith(s, p) == Len(s) >= Len(p) /\ SubSeq(s, Len(s) - Len(p) + 1, Len(s)) = p

\* the test `!v || v.trim() === ""` on a string or undefined
Blank(v) == ~Truthy(v) \/ Trim(v) = <<>>

\* ------------------------------------------------------------ literals

str_review == <<"r","e","v","i","e","w">>
str_unassign == <<"u","n","a","s","s","i","g","n">>
str_OPS7 == <<"O","P","S","-","7">>
str_Task == <<"T","a","s","k">>
str_Fix == <<"F","i","x">>
str_blank == <<" "," ">>
str_10000 == <<"1","0","0","0","0">>

\* ------------------------------------------------------------ values

\* A JSON object as the code reads it: the fields the server ever looks at.
\* fkey is fields.key; hasContent says that content is an array.
EmptyObj ==
  [isError |-> FALSE, error |-> Undefined, hasContent |-> FALSE, content |-> <<>>,
   key |-> Undefined, fkey |-> Undefined, id |-> Undefined, issueKey |-> Undefined,
   hasTransitions |-> FALSE, transitions |-> <<>>]

\* A text: either the serialisation of an object or characters that do not
\* parse as JSON.
JSONstringify(obj) == [json |-> TRUE, obj |-> obj, chars |-> <<>>]
PlainText(chars) == [json |-> FALSE, obj |-> EmptyObj, chars |-> chars]

\* JSON.parse: ok = FALSE stands for the SyntaxError it throws.
JSONparse(t) == [ok |-> t.json, val |-> t.obj]

\* the test `!response || response.trim() === ""` on a response body
EmptyBody(t) == ~t.json /\ Trim(t.chars) = <<>>

TextBlock(t) == [type |-> "text", text |-> t]

\* The envelope both adapters return: one text block holding the JSON.
McpEnvelope(obj) ==
  [EmptyObj EXCEPT !.hasContent = TRUE, !.content = <<TextBlock(JSONstringify(obj))>>]

\* A thrown Error: the message template, and what the template interpolates.
Err(msg) == [msg |-> msg, status |-> 0, body |-> PlainText(<<>>), name |-> ""]
ErrNamed(msg, name) == [Err(msg) EXCEPT !.name = name]
ErrHttp(status, body) == [Err("HTTP") EXCEPT !.status = status, !.body = body]
NoErr == Err("")

\* The result of a call that may throw.
Ok(v) == [ok |-> TRUE, val |-> v, err |-> NoErr]
Throw(e) == [ok |-> FALSE, val |-> EmptyObj, err |-> e]

\* A template literal's rendering of a value: undefined prints as the word.
Str(v) == IF v = Undefined THEN <<"u","n","d","e","f","i","n","e","d">> ELSE v

\* ------------------------------------------------------------ backend selector

getJiraTypeIgnoringCloudId(e) ==
  IF Truthy(e.JIRA_BASE_URL) /\ Truthy(Trim(e.JIRA_BASE_URL)) /\ ~Truthy(e.JIRA_CLOUD_ID)
  THEN "datacenter" ELSE "cloud"

getJiraType(e) ==
  IF Truthy(e.JIRA_BASE_URL) /\ Truthy(Trim(e.JIRA_BASE_URL))
  THEN "datacenter" ELSE "cloud"

\* .replace(/^["']|["']$/g, '')
StripQuotes(s) ==
  LET q == {"\"", "'"}
      a == IF s # <<>> /\ Head(s) \in q THEN Tail(s) ELSE s
  IN IF a # <<>> /\ a[Len(a)] \in q THEN SubSeq(a, 1, Len(a) - 1) ELSE a

getCloudId(e) ==
  IF getJiraType(e) = "datacenter"
  THEN IF ~Truthy(e.JIRA_BASE_URL)
       THEN [ok |-> FALSE, val |-> Undefined, err |-> Err("JIRA_BASE_URL is required for Data Center")]
       ELSE [ok |-> TRUE, val |-> e.JIRA_BASE_URL, err |-> NoErr]
  ELSE LET envCloudId == IF Truthy(e.JIRA_CLOUD_ID) THEN e.JIRA_CLOUD_ID ELSE e.CLOUD_ID
       IN IF Truthy(envCloudId)
          THEN [ok |-> TRUE, val |-> Trim(StripQuotes(envCloudId)), err |-> NoErr]
          ELSE [ok |-> FALSE, val |-> Undefined, err |-> Err("JIRA_CLOUD_ID not set")]

\* ------------------------------------------------------------ Direct-API adapter

\* new URL(baseUrl): the scheme and host are the single atom "https://h";
\* anything else is an invalid URL. pathname is "/" when the URL has no path.
UrlValid(s) == Trim(s) # <<>> /\ Head(Trim(s)) = "https://h"
UrlPathname(s) == IF Len(Trim(s)) = 1 THEN <<"/">> ELSE Tail(Trim(s))

ApiPrefix == <<"/","rest","/","api","/","2","/">>

\* lines 272-275
FullPath(baseUrl, endpoint) ==
  LET pathname == UrlPathname(baseUrl)
      apiPath == IF StartsWith(endpoint, <<"/","rest","/","api">>)
                 THEN endpoint ELSE ApiPrefix \o endpoint
  IN IF EndsWith(pathname, <<"/">>)
     THEN SubSeq(pathname, 1, Len(pathname) - 1) \o apiPath
     ELSE pathname \o apiPath

NoAuth == [scheme |-> "none", user |-> <<>>, token |-> <<>>]

\* lines 279-292: the Authorization header; Basic's base64(user:token) is kept
\* as the pair it encodes. scheme "none" is the thrown "Unable to determine".
AuthHeader(e, token, username) ==
  IF Truthy(e.JIRA_PERSONAL_ACCESS_TOKEN) /\ Truthy(token) /\ ~Truthy(e.JIRA_API_TOKEN)
  THEN [scheme |-> "Bearer", user |-> <<>>, token |-> Trim(token)]
  ELSE LET authUsername == IF Truthy(e.JIRA_EMAIL) THEN e.JIRA_EMAIL
                           ELSE IF Truthy(e.JIRA_USERNAME) THEN e.JIRA_USERNAME
                           ELSE username
       IN IF Truthy(authUsername) /\ Truthy(token)
          THEN [scheme |-> "Basic", user |-> Trim(authUsername), token |-> Trim(token)]
          ELSE NoAuth

\* httpsRequest, lines 232-249: w is what the network answers, w.net = FALSE a
\* socket error, w.status = 0 a response without status code.
httpsRequestWrapsEveryStatus(w) ==
  IF ~w.net THEN Throw(Err("network"))
  ELSE [ok |-> TRUE, val |-> w.body, err |-> NoErr]

\* httpsRequest rejecting a response without a body.
httpsRequestRejectsEmptyBody(w) ==
  IF ~w.net THEN Throw(Err("network"))
  ELSE IF w.status # 0 /\ w.status >= 200 /\ w.status < 300 /\ ~EmptyBody(w.body)
       THEN [ok |-> TRUE, val |-> w.body, err |-> NoErr]
       ELSE [ok |-> FALSE, val |-> w.body, err |-> ErrHttp(w.status, w.body)]

httpsRequest(w) ==
  IF ~w.net THEN Throw(Err("network"))
  ELSE IF w.status # 0 /\ w.status >= 200 /\ w.status < 300
       THEN [ok |-> TRUE, val |-> w.body, err |-> NoErr]
       ELSE [ok |-> FALSE, val |-> w.body, err |-> ErrHttp(w.status, w.body)]

NoHttp == <<>>

\* callJiraDataCenterAPI, lines 252-321. The result carries the HTTP requests
\* it sent (none or one). A request body is the sequence of its <<path, value>>
\* leaves, in insertion order.
callJiraDataCenterAPI(e, endpoint, method, data, w) ==
  LET baseUrl == e.JIRA_BASE_URL
      token == IF Truthy(e.JIRA_API_TOKEN) THEN e.JIRA_API_TOKEN
               ELSE e.JIRA_PERSONAL_ACCESS_TOKEN
      username == IF Truthy(e.JIRA_USERNAME) THEN e.JIRA_USERNAME ELSE e.JIRA_EMAIL
      isPersonalAccessToken ==
        Truthy(e.JIRA_PERSONAL_ACCESS_TOKEN) /\ ~Truthy(e.JIRA_API_TOKEN)
      fail(m) == [ok |-> FALSE, val |-> EmptyObj, err |-> Err(m), http |-> NoHttp]
  IN IF Blank(baseUrl)
     THEN fail("JIRA_BASE_URL is required for Data Center")
     ELSE IF Blank(token)
     THEN fail("JIRA_API_TOKEN or JIRA_PERSONAL_ACCESS_TOKEN is required for Data Center")
     ELSE IF ~isPersonalAccessToken /\ Blank(username)
     THEN fail("JIRA_USERNAME or JIRA_EMAIL is required for Data Center authentication when using API Token")
     ELSE IF ~UrlValid(baseUrl)
     THEN fail("Invalid URL")
     ELSE LET authHeader == AuthHeader(e, token, username)
          IN IF authHeader.scheme = "none"
             THEN fail("Unable to determine authentication method")
             ELSE LET req == [method |-> method, path |-> FullPath(baseUrl, endpoint),
                              auth |-> authHeader, data |-> data]
                      response == httpsRequest(w)
                  IN IF ~response.ok
                     THEN [ok |-> FALSE, val |-> EmptyObj, err |-> response.err,
                           http |-> <<req>>]
                     ELSE IF EmptyBody(response.val)
                     THEN [ok |-> TRUE, val |-> EmptyObj, err |-> NoErr, http |-> <<req>>]
                     ELSE [ok |-> TRUE,
                           val |-> IF JSONparse(response.val).ok
                                   THEN JSONparse(response.val).val ELSE EmptyObj,
                           err |-> NoErr, http |-> <<req>>]

NoData == <<>>

\* The tool names the switch of callJiraDataCenterTool maps (lines 72-216).
DataCenterTools ==
  {"getJiraIssue", "createJiraIssue", "editJiraIssue", "getTransitionsForJiraIssue",
   "transitionJiraIssue", "getVisibleJiraProjects", "getJiraProjectIssueTypesMetadata",
   "getJiraIssueTypeMetaWithFields", "addCommentToJiraIssue"}

\* The arguments object of a tool call; a field the caller leaves out is
\* Undefined (fields: hasFields FALSE). transitionId is transition.id.
NoArgs ==
  [cloudId |-> Undefined, issueIdOrKey |-> Undefined, projectKey |-> Undefined,
   issueTypeName |-> Undefined, summary |-> Undefined, description |-> Undefined,
   hasFields |-> FALSE, fields |-> <<>>, transitionId |-> Undefined,
   commentBody |-> Undefined, branchName |-> Undefined, assignee |-> Undefined]

\* Object.assign(target, source) on objects kept as <<key, value>> sequences:
\* a key of source replaces the target's value in place, a new key is appended.
RECURSIVE ObjectAssign(_, _)
ObjectAssign(target, source) ==
  IF source = <<>> THEN target
  ELSE LET kv == Head(source)
           hit == {i \in 1..Len(target) : target[i][1] = kv[1]}
           t2 == IF hit = {} THEN Append(target, kv)
                 ELSE [i \in 1..Len(target) |-> IF i \in hit THEN kv ELSE target[i]]
       IN ObjectAssign(t2, Tail(source))

\* lines 86-100: the fields object of the create request
CreateFields(a) ==
  LET base == << <<"project", a.projectKey>>, <<"summary", a.summary>>,
                 <<"issuetype", a.issueTypeName>> >>
      withDesc == IF Truthy(a.description)
                  THEN Append(base, <<"description", a.description>>) ELSE base
  IN IF a.hasFields THEN ObjectAssign(withDesc, a.fields) ELSE withDesc

\* The REST call of each mapped tool: endpoint, method, body.
RestCall(name, a) ==
  CASE name = "getJiraIssue" ->
         [endpoint |-> <<"issue", "/">> \o Str(a.issueIdOrKey), method |-> "GET",
          data |-> NoData]
    [] name = "createJiraIssue" ->
         [endpoint |-> <<"issue">>, method |-> "POST", data |-> CreateFields(a)]
    [] name = "editJiraIssue" ->
         [endpoint |-> <<"issue", "/">> \o Str(a.issueIdOrKey), method |-> "PUT",
          data |-> IF a.hasFields THEN a.fields ELSE NoData]
    [] name = "getTransitionsForJiraIssue" ->
         [endpoint |-> <<"issue", "/">> \o Str(a.issueIdOrKey) \o <<"/", "transitions">>,
          method |-> "GET", data |-> NoData]
    [] name = "transitionJiraIssue" ->
         [endpoint |-> <<"issue", "/">> \o Str(a.issueIdOrKey) \o <<"/", "transitions">>,
          method |-> "POST", data |-> << <<"transition", a.transitionId>> >>]
    [] name = "getVisibleJiraProjects" ->
         [endpoint |-> <<"project">>, method |-> "GET", data |-> NoData]
    [] name = "getJiraProjectIssueTypesMetadata" ->
         [endpoint |-> <<"project", "/">> \o Str(a.projectKey) \o <<"/", "statuses">>,
          method |-> "GET", data |-> NoData]
    [] name = "getJiraIssueTypeMetaWithFields" ->
         [endpoint |-> <<"issue", "/", "createmeta", "?">> \o Str(a.projectKey),
          method |-> "GET", data |-> NoData]
    [] name = "addCommentToJiraIssue" ->
         [endpoint |-> <<"issue", "/">> \o Str(a.issueIdOrKey) \o <<"/", "comment">>,
          method |-> "POST", data |-> << <<"body", a.commentBody>> >>]

\* The default branch of the switch answering like a mapped tool with nothing
\* to say (the silent no-op the adapter must not have).
callJiraDataCenterToolSilentDefault(e, name, a, w) ==
  IF name \in DataCenterTools
  THEN LET c == RestCall(name, a)
           r == callJiraDataCenterAPI(e, c.endpoint, c.method, c.data, w)
       IN IF r.ok THEN [r EXCEPT !.val = McpEnvelope(r.val)] ELSE r
  ELSE [ok |-> TRUE, val |-> McpEnvelope(EmptyObj), err |-> NoErr, http |-> NoHttp]

\* callJiraDataCenterTool, lines 70-221
callJiraDataCenterTool(e, name, a, w) ==
  IF name \in DataCenterTools
  THEN LET c == RestCall(name, a)
           r == callJiraDataCenterAPI(e, c.endpoint, c.method, c.data, w)
       IN IF r.ok THEN [r EXCEPT !.val = McpEnvelope(r.val)] ELSE r
  ELSE [ok |-> FALSE, val |-> EmptyObj,
        err |-> ErrNamed("Tool not yet implemented for Data Center", name),
        http |-> NoHttp]

\* ------------------------------------------------------------ Cloud proxy adapter

\* jiraClient (line 29): created says the variable is non-null, connected that
\* connect() has completed on it, made counts the Client objects (each with
\* its transport) constructed since start-up.
NoClient == [created |-> FALSE, connected |-> FALSE, made |-> 0]

\* getJiraClient constructing a client on every call.
getJiraClientAlwaysNew(cl, w) ==
  IF w.connect
  THEN [ok |-> TRUE, client |-> [created |-> TRUE, connected |-> TRUE, made |-> cl.made + 1],
        err |-> NoErr, setup |-> 1]
  ELSE [ok |-> FALSE, client |-> [created |-> TRUE, connected |-> FALSE, made |-> cl.made + 1],
        err |-> Err("connect failed"), setup |-> 1]

\* getJiraClient, lines 41-51: the client is stored before connect() is awaited.
\* w.connect is whether the bridge process comes up.
getJiraClient(cl, w) ==
  IF ~cl.created
  THEN IF w.connect
       THEN [ok |-> TRUE,
             client |-> [created |-> TRUE, connected |-> TRUE, made |-> cl.made + 1],
             err |-> NoErr, setup |-> 1]
       ELSE [ok |-> FALSE,
             client |-> [created |-> TRUE, connected |-> FALSE, made |-> cl.made + 1],
             err |-> Err("connect failed"), setup |-> 1]
  ELSE [ok |-> TRUE, client |-> cl, err |-> NoErr, setup |-> 0]

\* client.request on the shared client: a client whose connect() never
\* completed cannot deliver the request; otherwise the remote server answers
\* with a result or a rejection.
CloudRequest(cl, w) ==
  IF ~cl.connected THEN Throw(Err("Not connected"))
  ELSE IF w.reject THEN Throw(Err("remote rejected"))
  ELSE Ok(w.result)

\* callJiraTool, lines 53-68. The result carries what the call did: the HTTP
\* requests sent, the requests put on the Cloud client, the client afterwards,
\* the adapter that ran.
callJiraTool(e, cl, name, a, w) ==
  IF getJiraType(e) = "datacenter"
  THEN LET r == callJiraDataCenterTool(e, name, a, w)
       IN [ok |-> r.ok, val |-> r.val, err |-> r.err, http |-> r.http,
           cloud |-> <<>>, client |-> cl, backend |-> "datacenter", setups |-> 0]
  ELSE LET g == getJiraClient(cl, w)
       IN IF ~g.ok
          THEN [ok |-> FALSE, val |-> EmptyObj, err |-> g.err, http |-> NoHttp,
                cloud |-> <<>>, client |-> g.client, backend |-> "cloud",
                setups |-> g.setup]
          ELSE LET r == CloudRequest(g.client, w)
               IN [ok |-> r.ok, val |-> r.val, err |-> r.err, http |-> NoHttp,
                   cloud |-> <<[name |-> name, args |-> a]>>, client |-> g.client,
                   backend |-> "cloud", setups |-> g.setup]

\* The tools the ListTools handler names itself: the static Data Center list
\* (lines 613-677) and the custom tools (lines 683-740).
DataCenterToolList ==
  <<"getJiraIssue", "createJiraIssue", "editJiraIssue", "getTransitionsForJiraIssue",
    "transitionJiraIssue">>
CustomTools ==
  <<"createJiraIssueWithBranch", "assignJiraIssueWithAnalysis",
    "transitionJiraIssueToReview", "analyzeJiraIssue">>

\* The ListTools handler answering with the composite tools alone when the
\* Cloud listing cannot be had.
listToolsSwallowsFailure(e, cl, w) ==
  IF getJiraType(e) = "cloud"
  THEN LET g == getJiraClient(cl, w)
           sent == <<[name |-> "tools/list", args |-> NoArgs]>>
       IN IF ~g.ok
          THEN [ok |-> TRUE, tools |-> CustomTools, err |-> NoErr, client |-> g.client,
                cloud |-> <<>>, setups |-> g.setup]
          ELSE IF ~g.client.connected \/ w.reject
          THEN [ok |-> TRUE, tools |-> CustomTools, err |-> NoErr,
                client |-> g.client, cloud |-> sent, setups |-> g.setup]
          ELSE [ok |-> TRUE, tools |-> w.tools \o CustomTools, err |-> NoErr,
                client |-> g.client, cloud |-> sent, setups |-> g.setup]
  ELSE [ok |-> TRUE, tools |-> DataCenterToolList \o CustomTools, err |-> NoErr,
        client |-> cl, cloud |-> <<>>, setups |-> 0]

\* The ListTools handler, lines 603-747: w.tools is what the remote server
\* lists. The result carries the client afterwards and the request put on it.
listTools(e, cl, w) ==
  IF getJiraType(e) = "cloud"
  THEN LET g == getJiraClient(cl, w)
           sent == <<[name |-> "tools/list", args |-> NoArgs]>>
       IN IF ~g.ok
          THEN [ok |-> FALSE, tools |-> <<>>, err |-> g.err, client |-> g.client,
                cloud |-> <<>>, setups |-> g.setup]
          ELSE IF ~g.client.connected
          THEN [ok |-> FALSE, tools |-> <<>>, err |-> Err("Not connected"),
                client |-> g.client, cloud |-> sent, setups |-> g.setup]
          ELSE IF w.reject
          THEN [ok |-> FALSE, tools |-> <<>>, err |-> Err("remote rejected"),
                client |-> g.client, cloud |-> sent, setups |-> g.setup]
          ELSE [ok |-> TRUE, tools |-> w.tools \o CustomTools, err |-> NoErr,
                client |-> g.client, cloud |-> sent, setups |-> g.setup]
  ELSE [ok |-> TRUE, tools |-> DataCenterToolList \o CustomTools, err |-> NoErr,
        client |-> cl, cloud |-> <<>>, setups |-> 0]

\* ------------------------------------------------------------ branch names

Digits == {"0","1","2","3","4","5","6","7","8","9"}
IsLowerAlnum(c) == c \in Digits \/ \E i \in 1..Len(Lower) : Lower[i] = c
IsUpperLetter(c) == \E i \in 1..Len(Upper) : Upper[i] = c

\* .substring(0, 100), line 229
BranchMaxLen == 100

\* .replace(/[^a-z0-9]+/g, "-"): every character of a run of others is
\* dropped but the first, which becomes the hyphen.
HyphenateRuns(s) ==
  LET marked == [i \in 1..Len(s) |->
                   IF IsLowerAlnum(s[i]) THEN s[i]
                   ELSE IF i = 1 \/ IsLowerAlnum(s[i - 1]) THEN "-"
                   ELSE "dropped"]
  IN SelectSeq(marked, LAMBDA c : c # "dropped")

\* .replace(/^-+|-+$/g, "")
RECURSIVE StripHyphens(_)
StripHyphens(s) ==
  IF s # <<>> /\ Head(s) = "-" THEN StripHyphens(Tail(s))
  ELSE IF s # <<>> /\ s[Len(s)] = "-" THEN StripHyphens(SubSeq(s, 1, Len(s) - 1))
  ELSE s

Substring(s, n) == IF Len(s) > n THEN SubSeq(s, 1, n) ELSE s

\* sanitizeBranchName, lines 223-230
sanitizeBranchName(name) ==
  Substring(StripHyphens(HyphenateRuns(ToLowerCase(name))), BranchMaxLen)

\* transliterationMap of the older revision (part_001, lines 50-66). A
\* character outside ASCII is written by its code point: "U+0431" is one
\* character, the Cyrillic letter be.
TransliterationMap ==
  <<<<"U+0430", <<"a">> >>, <<"U+0431", <<"b">> >>, <<"U+0432", <<"v">> >>,
    <<"U+0433", <<"h">> >>, <<"U+0491", <<"g">> >>, <<"U+0434", <<"d">> >>,
    <<"U+0435", <<"e">> >>, <<"U+0454", <<"i","e">> >>, <<"U+0436", <<"z","h">> >>,
    <<"U+0437", <<"z">> >>, <<"U+0438", <<"y">> >>, <<"U+0456", <<"i">> >>,
    <<"U+0457", <<"i">> >>, <<"U+0439", <<"i">> >>, <<"U+043A", <<"k">> >>,
    <<"U+043B", <<"l">> >>, <<"U+043C", <<"m">> >>, <<"U+043D", <<"n">> >>,
    <<"U+043E", <<"o">> >>, <<"U+043F", <<"p">> >>, <<"U+0440", <<"r">> >>,
    <<"U+0441", <<"s">> >>, <<"U+0442", <<"t">> >>, <<"U+0443", <<"u">> >>,
    <<"U+0444", <<"f">> >>, <<"U+0445", <<"k","h">> >>, <<"U+0446", <<"t","s">> >>,
    <<"U+0447", <<"c","h">> >>, <<"U+0448", <<"s","h">> >>,
    <<"U+0449", <<"s","h","c","h">> >>, <<"U+044C", <<>> >>,
    <<"U+044E", <<"i","u">> >>, <<"U+044F", <<"i","a">> >>, <<"U+0410", <<"A">> >>,
    <<"U+0411", <<"B">> >>, <<"U+0412", <<"V">> >>, <<"U+0413", <<"H">> >>,
    <<"U+0490", <<"G">> >>, <<"U+0414", <<"D">> >>, <<"U+0415", <<"E">> >>,
    <<"U+0404", <<"I","E">> >>, <<"U+0416", <<"Z","H">> >>, <<"U+0417", <<"Z">> >>,
    <<"U+0418", <<"Y">> >>, <<"U+0406", <<"I">> >>, <<"U+0407", <<"I">> >>,
    <<"U+0419", <<"I">> >>, <<"U+041A", <<"K">> >>, <<"U+041B", <<"L">> >>,
    <<"U+041C", <<"M">> >>, <<"U+041D", <<"N">> >>, <<"U+041E", <<"O">> >>,
    <<"U+041F", <<"P">> >>, <<"U+0420", <<"R">> >>, <<"U+0421", <<"S">> >>,
    <<"U+0422", <<"T">> >>, <<"U+0423", <<"U">> >>, <<"U+0424", <<"F">> >>,
    <<"U+0425", <<"K","H">> >>, <<"U+0426", <<"T","S">> >>,
    <<"U+0427", <<"C","H">> >>, <<"U+0428", <<"S","H">> >>,
    <<"U+0429", <<"S","H","C","H">> >>, <<"U+042C", <<>> >>,
    <<"U+042E", <<"I","U">> >>, <<"U+042F", <<"I","A">> >>, <<"U+044B", <<"y">> >>,
    <<"U+044D", <<"e">> >>, <<"U+044A", <<>> >>, <<"U+0451", <<"e">> >>,
    <<"U+042B", <<"Y">> >>, <<"U+042D", <<"E">> >>, <<"U+042A", <<>> >>,
    <<"U+0401", <<"E">> >>>>

\* transliterateToEnglish, part_001 lines 49-73: `transliterationMap[char] ||
\* char`, so a letter mapped to "" (the soft and hard signs) stays as it is.
RECURSIVE transliterateToEnglish(_)
transliterateToEnglish(text) ==
  IF Len(text) = 0 THEN <<>>
  ELSE IF Len(text) = 1
  THEN LET hits == {i \in 1..Len(TransliterationMap) :
                      TransliterationMap[i][1] = text[1]}
           to == IF hits = {} THEN <<>>
                 ELSE TransliterationMap[CHOOSE i \in hits : TRUE][2]
       IN IF to # <<>> THEN to ELSE text
  ELSE LET half == Len(text) \div 2
       IN transliterateToEnglish(SubSeq(text, 1, half))
            \o transliterateToEnglish(SubSeq(text, half + 1, Len(text)))

\* lines 447-452 (and 392-397): ok = FALSE is the TypeError of calling a
\* string method on an issue key that is a number.
DeriveBranchName(issueKey, customBranchName) ==
  IF Truthy(customBranchName) /\ Truthy(Trim(customBranchName))
  THEN [ok |-> TRUE, name |-> sanitizeBranchName(Trim(customBranchName))]
  ELSE IF IsString(issueKey)
       THEN [ok |-> TRUE, name |-> ToLowerCase(issueKey)]
       ELSE [ok |-> FALSE, name |-> <<>>]

\* ------------------------------------------------------------ try / catch

\* A block of awaited commands: the commands it issued (log) and whether an
\* exception left it (threw).
Skip == [threw |-> FALSE, log |-> <<>>]
Raise == [threw |-> TRUE, log |-> <<>>]
Run(cmd, ok) == [threw |-> ~ok, log |-> <<cmd>>]

\* a; b
Then(a, b) == IF a.threw THEN a ELSE [threw |-> b.threw, log |-> a.log \o b.log]

\* try { a } catch { }
Try(a) == [threw |-> FALSE, log |-> a.log]

\* try { a } catch { h }
TryCatch(a, h) == IF a.threw THEN [threw |-> h.threw, log |-> a.log \o h.log] ELSE a

\* ------------------------------------------------------------ Local strategy

Git(verb, arg) == [verb |-> verb, arg |-> arg]

str_master == <<"m","a","s","t","e","r">>
str_main == <<"m","a","i","n">>

\* line 454
LocalDefaultBranch(e) ==
  Or(e.GITLAB_DEFAULT_BRANCH, Or(e.GITHUB_DEFAULT_BRANCH, str_master))

\* branchExists, lines 425-432: st.probe is "found", "absent" or "fail"
\* (the command failing); the catch turns a failure into false.
branchExists(branchName, st) ==
  [exists |-> st.probe = "found",
   block |-> Try(Run(Git("branch --list", branchName), st.probe # "fail"))]

\* createGitLabBranch with the catch around the pull left out.
createGitLabBranchPullUncaught(e, issueKey, customBranchName, st) ==
  IF ~e.isGitRepo THEN Skip
  ELSE LET n == DeriveBranchName(issueKey, customBranchName)
           d == LocalDefaultBranch(e)
           probe == branchExists(n.name, st)
       IN IF ~n.ok THEN Try(Raise)
          ELSE
            Then(Try(Run(Git("fetch", <<"origin">>), st.fetch)),
            Then(TryCatch(Run(Git("checkout", d), st.checkout),
                          Try(Run(Git("checkout -b", d), st.create))),
            Then(Run(Git("pull", d), st.pull),
            Then(probe.block,
                 IF ~probe.exists
                 THEN Try(Run(Git("checkout -b", n.name), st.target))
                 ELSE Try(Run(Git("checkout", n.name), st.target))))))

\* createGitLabBranch with the outer catch alone: the first command that
\* fails ends the run.
createGitLabBranchStopsAtFailure(e, issueKey, customBranchName, st) ==
  IF ~e.isGitRepo THEN Skip
  ELSE LET n == DeriveBranchName(issueKey, customBranchName)
           d == LocalDefaultBranch(e)
           probe == branchExists(n.name, st)
       IN Try(
            IF ~n.ok THEN Raise
            ELSE Then(Run(Git("fetch", <<"origin">>), st.fetch),
                 Then(Run(Git("checkout", d), st.checkout),
                 Then(Run(Git("pull", d), st.pull),
                 Then(probe.block,
                      IF ~probe.exists
                      THEN Run(Git("checkout -b", n.name), st.target)
                      ELSE Run(Git("checkout", n.name), st.target))))))

\* createGitLabBranch, lines 434-499. st gives the exit of each git command.
createGitLabBranch(e, issueKey, customBranchName, st) ==
  IF ~e.isGitRepo THEN Skip
  ELSE LET n == DeriveBranchName(issueKey, customBranchName)
           d == LocalDefaultBranch(e)
           probe == branchExists(n.name, st)
       IN Try(
            IF ~n.ok THEN Raise
            ELSE Try(
              Then(Try(Run(Git("fetch", <<"origin">>), st.fetch)),
              Then(TryCatch(Run(Git("checkout", d), st.checkout),
                            Try(Run(Git("checkout -b", d), st.create))),
              Then(Try(Run(Git("pull", d), st.pull)),
              Then(probe.block,
                   IF ~probe.exists
                   THEN Try(Run(Git("checkout -b", n.name), st.target))
                   ELSE Try(Run(Git("checkout", n.name), st.target))))))))

\* ------------------------------------------------------------ Remote strategy

\* .split("/").filter(p => p): the non-empty segments between slashes
RECURSIVE SplitSlash(_, _)
SplitSlash(s, cur) ==
  IF s = <<>> THEN (IF cur = <<>> THEN <<>> ELSE <<cur>>)
  ELSE IF Head(s) = "/"
       THEN (IF cur = <<>> THEN <<>> ELSE <<cur>>) \o SplitSlash(Tail(s), <<>>)
       ELSE SplitSlash(Tail(s), Append(cur, Head(s)))

\* .replace(/\.git$/, "") with ".git" the single atom ".git"
StripDotGit(s) == IF s # <<>> /\ s[Len(s)] = ".git" THEN SubSeq(s, 1, Len(s) - 1) ELSE s

\* parseGitHubRepo, lines 345-375. A URL's scheme and host are the single atom
\* "https://github.com"; found = FALSE is the null it returns.
parseGitHubRepo(repo) ==
  LET t == Trim(repo)
      path == IF t # <<>> /\ Head(t) = "https://github.com" THEN Tail(t) ELSE t
      parts == SplitSlash(StripDotGit(path), <<>>)
  IN IF Len(parts) >= 2
     THEN [found |-> TRUE, owner |-> parts[1], repoName |-> parts[2]]
     ELSE [found |-> FALSE, owner |-> <<>>, repoName |-> <<>>]

Hub(method, repo, ref, sha) == [method |-> method, repo |-> repo, ref |-> ref, sha |-> sha]

\* getDefaultBranchSha, lines 323-343: the read request; hw.read is "ok", "fail"
\* (non-2xx or socket error) or "malformed" (a body without object.sha).
getDefaultBranchSha(repo, branch, hw) ==
  [block |-> Run(Hub("GET", repo, branch, <<>>), hw.read = "ok"),
   sha |-> hw.sha]

\* line 399
RemoteDefaultBranch(e) == Or(e.GITHUB_DEFAULT_BRANCH, str_main)

\* createGitHubBranch sending the write whatever the read gave.
createGitHubBranchWritesRegardless(e, issueKey, customBranchName, hw) ==
  IF ~Truthy(e.GITHUB_TOKEN) \/ ~Truthy(e.GITHUB_REPO) THEN Skip
  ELSE LET repoInfo == parseGitHubRepo(e.GITHUB_REPO)
           n == DeriveBranchName(issueKey, customBranchName)
           repo == repoInfo.owner \o <<"/">> \o repoInfo.repoName
           read == getDefaultBranchSha(repo, RemoteDefaultBranch(e), hw)
       IN IF ~repoInfo.found THEN Skip
          ELSE Try(
            IF ~n.ok THEN Raise
            ELSE Then(Try(read.block),
                      Run(Hub("POST", repo, n.name, read.sha), hw.write)))

\* createGitHubBranch, lines 377-423. hw gives the hosting API's answers.
createGitHubBranch(e, issueKey, customBranchName, hw) ==
  IF ~Truthy(e.GITHUB_TOKEN) \/ ~Truthy(e.GITHUB_REPO) THEN Skip
  ELSE LET repoInfo == parseGitHubRepo(e.GITHUB_REPO)
           n == DeriveBranchName(issueKey, customBranchName)
           repo == repoInfo.owner \o <<"/">> \o repoInfo.repoName
           read == getDefaultBranchSha(repo, RemoteDefaultBranch(e), hw)
       IN IF ~repoInfo.found THEN Skip
          ELSE Try(
            IF ~n.ok THEN Raise
            ELSE Then(read.block,
                      Run(Hub("POST", repo, n.name, read.sha), hw.write)))

\* ------------------------------------------------------------ response normaliser

IsDigit(c) == c \in Digits

\* The end of the run of upper-case letters (of digits) that starts at i
\* (i - 1 when s[i] is none).
RECURSIVE UpperRunEnd(_, _)
UpperRunEnd(s, i) ==
  IF i <= Len(s) /\ IsUpperLetter(s[i]) THEN UpperRunEnd(s, i + 1) ELSE i - 1

RECURSIVE DigitRunEnd(_, _)
DigitRunEnd(s, i) ==
  IF i <= Len(s) /\ IsDigit(s[i]) THEN DigitRunEnd(s, i + 1) ELSE i - 1

\* text.match(/([A-Z]+-\d+)/): the leftmost match, both runs greedy; found =
\* FALSE is the null of no match.
KeyMatch(s) ==
  LET starts == {i \in 1..Len(s) :
                   LET u == UpperRunEnd(s, i)
                   IN /\ u >= i
                      /\ u + 2 <= Len(s)
                      /\ s[u + 1] = "-"
                      /\ IsDigit(s[u + 2])}
  IN IF starts = {} THEN [found |-> FALSE, key |-> <<>>]
     ELSE LET i == CHOOSE x \in starts : \A y \in starts : x <= y
              u == UpperRunEnd(s, i)
          IN [found |-> TRUE, key |-> SubSeq(s, i, DigitRunEnd(s, u + 2))]

\* The scan without its breaks: every block is read and the last success is
\* kept.
RECURSIVE ScanContentLastSuccess(_, _)
ScanContentLastSuccess(content, issueKey) ==
  IF content = <<>> THEN issueKey
  ELSE LET item == Head(content)
           parsed == JSONparse(item.text)
           textTruthy == item.text.json \/ item.text.chars # <<>>
           keyMatch == KeyMatch(item.text.chars)
           k == IF item.type # "text" \/ ~textTruthy THEN issueKey
                ELSE IF parsed.ok
                THEN Or(parsed.val.key, Or(parsed.val.fkey, Or(parsed.val.id, issueKey)))
                ELSE IF keyMatch.found THEN keyMatch.key ELSE issueKey
       IN ScanContentLastSuccess(Tail(content), k)

\* lines 522-539: the scan of the content blocks, with the issue key found so
\* far (null at the start).
RECURSIVE ScanContent(_, _)
ScanContent(content, issueKey) ==
  IF content = <<>> THEN issueKey
  ELSE LET item == Head(content)
           parsed == JSONparse(item.text)
           textTruthy == item.text.json \/ item.text.chars # <<>>
       IN IF item.type = "text" /\ textTruthy
          THEN IF parsed.ok
               THEN LET k == Or(parsed.val.key, Or(parsed.val.fkey,
                                  Or(parsed.val.id, Null)))
                    IN IF Truthy(k) THEN k ELSE ScanContent(Tail(content), k)
               ELSE LET keyMatch == KeyMatch(item.text.chars)
                    IN IF keyMatch.found THEN keyMatch.key
                       ELSE ScanContent(Tail(content), issueKey)
          ELSE ScanContent(Tail(content), issueKey)

\* The extraction that honours isError alone and reads a result whose
\* error field is set like any other.
ExtractIssueKeyOnlyIsError(responseObj) ==
  IF responseObj.isError
  THEN [skipped |-> TRUE, issueKey |-> Null]
  ELSE IF responseObj.hasContent
  THEN [skipped |-> FALSE, issueKey |-> ScanContent(responseObj.content, Null)]
  ELSE [skipped |-> FALSE,
        issueKey |-> Or(responseObj.key, Or(responseObj.fkey,
                          Or(responseObj.id, Or(responseObj.issueKey, Null))))]

\* The extraction with the paths combined: a content array that yields
\* nothing falls back to the top-level fields.
ExtractIssueKeyFallsBack(responseObj) ==
  LET flat == Or(responseObj.key, Or(responseObj.fkey,
                   Or(responseObj.id, Or(responseObj.issueKey, Null))))
  IN IF responseObj.isError \/ Truthy(responseObj.error)
     THEN [skipped |-> TRUE, issueKey |-> Null]
     ELSE IF responseObj.hasContent
     THEN [skipped |-> FALSE,
           issueKey |-> Or(ScanContent(responseObj.content, Null), flat)]
     ELSE [skipped |-> FALSE, issueKey |-> flat]

\* lines 516-547: the issue key of a result; skipped = TRUE is the early
\* "return null" of a result flagged as an error.
ExtractIssueKey(responseObj) ==
  IF responseObj.isError \/ Truthy(responseObj.error)
  THEN [skipped |-> TRUE, issueKey |-> Null]
  ELSE IF responseObj.hasContent
  THEN [skipped |-> FALSE, issueKey |-> ScanContent(responseObj.content, Null)]
  ELSE [skipped |-> FALSE,
        issueKey |-> Or(responseObj.key, Or(responseObj.fkey,
                          Or(responseObj.id, Or(responseObj.issueKey, Null))))]

NoBranchWork == [threw |-> FALSE, raised |-> FALSE, git |-> <<>>, hub |-> <<>>]

\* handleCreateResponse reporting the key only when every branch step went
\* through (the key assigned after the branch work instead of before it).
handleCreateResponseKeyAfterBranch(e, res, branchNameInput, st, hw) ==
  LET x == ExtractIssueKey(res)
      branchName == Or(branchNameInput, Undefined)
      hasGitHub == Truthy(e.GITHUB_TOKEN) /\ Truthy(e.GITHUB_REPO)
      local == createGitLabBranch(e, x.issueKey, branchName, st)
      remote == createGitHubBranch(e, x.issueKey, branchName, hw)
      localOk == st.fetch /\ st.pull /\ st.target
      remoteOk == hw.read = "ok" /\ hw.write
  IN IF x.skipped \/ ~Truthy(x.issueKey)
     THEN [issueKey |-> x.issueKey] @@ NoBranchWork
     ELSE IF e.isGitRepo
     THEN [issueKey |-> IF localOk THEN x.issueKey ELSE Null, threw |-> FALSE,
           raised |-> local.threw, git |-> local.log, hub |-> <<>>]
     ELSE IF hasGitHub
     THEN [issueKey |-> IF remoteOk THEN x.issueKey ELSE Null, threw |-> FALSE,
           raised |-> remote.threw, git |-> <<>>, hub |-> remote.log]
     ELSE [issueKey |-> x.issueKey] @@ NoBranchWork

\* handleCreateResponse without the choice of a location: each strategy runs
\* wherever it is configured, the working copy and the hosting API alike.
handleCreateResponseBothLocations(e, res, branchNameInput, st, hw) ==
  LET x == ExtractIssueKey(res)
      branchName == Or(branchNameInput, Undefined)
      local == createGitLabBranch(e, x.issueKey, branchName, st)
      remote == createGitHubBranch(e, x.issueKey, branchName, hw)
  IN IF x.skipped \/ ~Truthy(x.issueKey)
     THEN [issueKey |-> x.issueKey] @@ NoBranchWork
     ELSE [issueKey |-> x.issueKey, threw |-> FALSE,
           raised |-> local.threw \/ remote.threw, git |-> local.log,
           hub |-> remote.log]

\* handleCreateResponse, lines 501-568 (res is never a string: both adapters
\* return objects). The result carries the branch commands it caused, whether
\* the strategy it dispatched to raised, and whether it threw itself.
handleCreateResponse(e, res, branchNameInput, st, hw) ==
  LET x == ExtractIssueKey(res)
      branchName == Or(branchNameInput, Undefined)
      hasGitHub == Truthy(e.GITHUB_TOKEN) /\ Truthy(e.GITHUB_REPO)
      local == createGitLabBranch(e, x.issueKey, branchName, st)
      remote == createGitHubBranch(e, x.issueKey, branchName, hw)
  IN IF x.skipped \/ ~Truthy(x.issueKey)
     THEN [issueKey |-> x.issueKey] @@ NoBranchWork
     ELSE IF e.isGitRepo
     THEN [issueKey |-> x.issueKey, threw |-> Try(local).threw,
           raised |-> local.threw, git |-> local.log, hub |-> <<>>]
     ELSE IF hasGitHub
     THEN [issueKey |-> x.issueKey, threw |-> Try(remote).threw,
           raised |-> remote.threw, git |-> <<>>, hub |-> remote.log]
     ELSE [issueKey |-> x.issueKey] @@ NoBranchWork

\* ------------------------------------------------------------ tool handlers

\* What a CallTool handler hands back: the composite tools' JSON envelope
\* (wrapped), a pass-through's raw result, or a thrown error.
NoMessage == [template |-> "", key |-> <<>>]
NoEnvelope ==
  [wrapped |-> FALSE, success |-> FALSE, issueKey |-> Undefined, message |-> NoMessage,
   data |-> EmptyObj, tools |-> <<>>]
Envelope(issueKey, message, data) ==
  [wrapped |-> TRUE, success |-> TRUE, issueKey |-> issueKey, message |-> message,
   data |-> data, tools |-> <<>>]
\* the ListTools answer: { tools: [...] }
Listed(tools) == [NoEnvelope EXCEPT !.tools = tools]
Raw(res) == [NoEnvelope EXCEPT !.data = res]

NoOutcome == [kind |-> "none", envelope |-> NoEnvelope, err |-> NoErr]
Returned(envelope) == [kind |-> "return", envelope |-> envelope, err |-> NoErr]
Thrown(err) == [kind |-> "throw", envelope |-> NoEnvelope, err |-> err]

\* The part of a handler before its backend call: it throws, or it calls the
\* backend tool `name` with `args`.
ThrowBefore(err) == [ok |-> FALSE, err |-> err, name |-> "", args |-> NoArgs]
CallBackend(name, args) == [ok |-> TRUE, err |-> NoErr, name |-> name, args |-> args]

\* `(args.cloudId as string) || getCloudId()`
ResolveCloudId(e, a) ==
  IF Truthy(a.cloudId) THEN [ok |-> TRUE, val |-> a.cloudId, err |-> NoErr]
  ELSE getCloudId(e)

\* lines 760-768: the first required field that is missing or blank, "" if none
FirstInvalidField(a) ==
  IF Blank(a.projectKey) THEN "projectKey"
  ELSE IF Blank(a.issueTypeName) THEN "issueTypeName"
  ELSE IF Blank(a.summary) THEN "summary"
  ELSE ""

\* The filter that drops the summary key alone.
RECURSIVE FilterFieldsSummaryOnly(_)
FilterFieldsSummaryOnly(fields) ==
  IF fields = <<>> THEN <<>>
  ELSE IF Head(fields)[1] = "summary"
       THEN FilterFieldsSummaryOnly(Tail(fields))
       ELSE <<Head(fields)>> \o FilterFieldsSummaryOnly(Tail(fields))

\* lines 777-791: the additional fields without summary and description
RECURSIVE FilterFields(_)
FilterFields(fields) ==
  IF fields = <<>> THEN <<>>
  ELSE IF Head(fields)[1] \in {"summary", "description"}
       THEN FilterFields(Tail(fields))
       ELSE <<Head(fields)>> \o FilterFields(Tail(fields))

\* lines 771-814: the arguments of the createJiraIssue call
CreateArgs(e, a, cloudId) ==
  LET fields == IF a.hasFields THEN FilterFields(a.fields) ELSE <<>>
      descriptionValue ==
        IF Truthy(a.description) /\ Truthy(Trim(a.description))
        THEN Trim(a.description) ELSE Undefined
  IN [NoArgs EXCEPT
        !.projectKey = Trim(a.projectKey),
        !.issueTypeName = Trim(a.issueTypeName),
        !.summary = Trim(a.summary),
        !.description = descriptionValue,
        !.hasFields = (fields # <<>>),
        !.fields = fields,
        !.cloudId = IF getJiraType(e) = "cloud" THEN Trim(Str(cloudId)) ELSE Undefined]

\* createJiraIssueWithBranch, lines 755-816: up to the createJiraIssue call
createJiraIssueWithBranch(e, a) ==
  LET cloudId == ResolveCloudId(e, a)
      bad == FirstInvalidField(a)
  IN IF ~cloudId.ok THEN ThrowBefore(cloudId.err)
     ELSE IF bad # "" THEN ThrowBefore(ErrNamed("is required and cannot be empty", bad))
     ELSE CallBackend("createJiraIssue", CreateArgs(e, a, cloudId.val))

CreatedMessage(issueKey) ==
  IF Truthy(issueKey)
  THEN [template |-> "Issue ${issueKey} created successfully and branch created",
        key |-> issueKey]
  ELSE [template |-> "Issue created successfully", key |-> <<>>]

\* lines 818-834: the answer, from the result and what handleCreateResponse
\* returned (or threw)
CreateAnswer(res, h) ==
  IF h.threw THEN Thrown(Err("branch automation"))
  ELSE Returned(Envelope(h.issueKey, CreatedMessage(h.issueKey), res))

\* `assigneeInput.length > 30`, line 846
AccountIdLength == 30

\* The classification with the length test off by one (>= for >).
AssigneeFieldOffByOne(assigneeInput) ==
  IF ToLowerCase(assigneeInput) = str_unassign \/ assigneeInput = <<>>
  THEN [form |-> "null", value |-> Null]
  ELSE IF Includes(assigneeInput, <<"@">>)
  THEN [form |-> "emailAddress", value |-> assigneeInput]
  ELSE IF Includes(assigneeInput, <<":">>) \/ Len(assigneeInput) >= AccountIdLength
  THEN [form |-> "accountId", value |-> assigneeInput]
  ELSE [form |-> "name", value |-> assigneeInput]

\* lines 841-850: the assignee representation chosen for an input string
AssigneeField(assigneeInput) ==
  IF ToLowerCase(assigneeInput) = str_unassign \/ assigneeInput = <<>>
  THEN [form |-> "null", value |-> Null]
  ELSE IF Includes(assigneeInput, <<"@">>)
  THEN [form |-> "emailAddress", value |-> assigneeInput]
  ELSE IF Includes(assigneeInput, <<":">>) \/ Len(assigneeInput) > AccountIdLength
  THEN [form |-> "accountId", value |-> assigneeInput]
  ELSE [form |-> "name", value |-> assigneeInput]

\* { assignee: null } or { assignee: { <form>: value } } as a fields object
AssigneeFields(f) ==
  CASE f.form = "null" -> << <<"assignee", Null>> >>
    [] f.form = "emailAddress" -> << <<"assignee.emailAddress", f.value>> >>
    [] f.form = "accountId" -> << <<"assignee.accountId", f.value>> >>
    [] f.form = "name" -> << <<"assignee.name", f.value>> >>

\* assignJiraIssueWithAnalysis, lines 838-856: up to the editJiraIssue call
\* (a missing assignee is the TypeError of undefined.toLowerCase())
assignJiraIssueWithAnalysis(e, a) ==
  LET cloudId == ResolveCloudId(e, a)
  IN IF ~cloudId.ok THEN ThrowBefore(cloudId.err)
     ELSE IF ~IsString(a.assignee) THEN ThrowBefore(Err("TypeError"))
     ELSE CallBackend("editJiraIssue",
            [NoArgs EXCEPT !.cloudId = cloudId.val,
                           !.issueIdOrKey = a.issueIdOrKey,
                           !.hasFields = TRUE,
                           !.fields = AssigneeFields(AssigneeField(a.assignee))])

\* lines 858-869
AssignAnswer(a, res) ==
  Returned(Envelope(Undefined,
    [template |-> "Issue ${issueIdOrKey} assigned successfully",
     key |-> Str(a.issueIdOrKey)], res))

\* A transition of the tracker: name and toName (to.name) may be missing.
Transition(id, name, toName) == [id |-> id, name |-> name, toName |-> toName]

\* lines 881-884: the predicate of transitions.find
IsReviewTransition(t) ==
  \/ IsString(t.name) /\ Includes(ToLowerCase(t.name), str_review)
  \/ IsString(t.toName) /\ Includes(ToLowerCase(t.toName), str_review)

\* Array.prototype.find: the index of the first match, 0 for undefined
FindReview(transitions) ==
  LET hits == {i \in 1..Len(transitions) : IsReviewTransition(transitions[i])}
  IN IF hits = {} THEN 0 ELSE CHOOSE i \in hits : \A j \in hits : i <= j

\* line 880: `transitionsRes?.transitions || []`
TransitionsOf(transitionsRes) ==
  IF transitionsRes.hasTransitions THEN transitionsRes.transitions ELSE <<>>

\* transitionJiraIssueToReview, lines 873-878: up to the transitions fetch
transitionJiraIssueToReview(e, a) ==
  LET cloudId == ResolveCloudId(e, a)
  IN IF ~cloudId.ok THEN ThrowBefore(cloudId.err)
     ELSE CallBackend("getTransitionsForJiraIssue",
            [NoArgs EXCEPT !.cloudId = cloudId.val, !.issueIdOrKey = a.issueIdOrKey])

\* The selection falling back to the first transition on offer when none
\* matches, instead of throwing.
SelectReviewTransitionOrFirst(getArgs, transitionsRes) ==
  LET transitions == TransitionsOf(transitionsRes)
      found == FindReview(transitions)
  IN IF transitions = <<>>
     THEN ThrowBefore(Err("No 'In Review' transition found for this issue"))
     ELSE CallBackend("transitionJiraIssue",
            [getArgs EXCEPT !.transitionId =
               transitions[IF found = 0 THEN 1 ELSE found].id])

\* lines 880-894: from the fetched transitions to the transitionJiraIssue call
SelectReviewTransition(getArgs, transitionsRes) ==
  LET transitions == TransitionsOf(transitionsRes)
      found == FindReview(transitions)
  IN IF found = 0
     THEN ThrowBefore(Err("No 'In Review' transition found for this issue"))
     ELSE CallBackend("transitionJiraIssue",
            [getArgs EXCEPT !.transitionId = transitions[found].id])

\* lines 896-907
ReviewAnswer(a, res) ==
  Returned(Envelope(Undefined,
    [template |-> "Issue ${issueIdOrKey} transitioned to review",
     key |-> Str(a.issueIdOrKey)], res))

\* analyzeJiraIssue, lines 911-921: up to the getJiraIssue call
analyzeJiraIssue(e, a) ==
  LET cloudId == ResolveCloudId(e, a)
  IN IF ~cloudId.ok THEN ThrowBefore(cloudId.err)
     ELSE IF Blank(a.issueIdOrKey)
     THEN ThrowBefore(ErrNamed("is required and cannot be empty", "issueIdOrKey"))
     ELSE CallBackend("getJiraIssue",
            [NoArgs EXCEPT !.cloudId = cloudId.val, !.issueIdOrKey = Trim(a.issueIdOrKey)])

\* lines 923-938: the answer, from the issue and what createGitLabBranch did
\* (b.threw: it threw, and nothing here catches)
AnalyzeAnswer(a, issueRes, b) ==
  IF b.threw THEN Thrown(Err("branch automation"))
  ELSE Returned(Envelope(Trim(a.issueIdOrKey),
         [template |-> "Branch created/checked out for issue ${issueIdOrKey}. Ready for analysis.",
          key |-> a.issueIdOrKey], issueRes))

\* ------------------------------------------------------------ the environment

\* process.env and the working directory (isGitRepo: it holds a .git entry).
NoEnv ==
  [JIRA_BASE_URL |-> Undefined, JIRA_CLOUD_ID |-> Undefined, CLOUD_ID |-> Undefined,
   JIRA_API_TOKEN |-> Undefined, JIRA_PERSONAL_ACCESS_TOKEN |-> Undefined,
   JIRA_USERNAME |-> Undefined, JIRA_EMAIL |-> Undefined,
   GITHUB_TOKEN |-> Undefined, GITHUB_REPO |-> Undefined,
   GITHUB_DEFAULT_BRANCH |-> Undefined, GITLAB_DEFAULT_BRANCH |-> Undefined,
   isGitRepo |-> FALSE]

url_jira == <<"https://h", "/", "j", "/">>
str_cloud1 == <<"c","1">>
str_pat == <<"p","a","t">>
str_ghtoken == <<"g","h","p">>
str_repo == <<"o","/","r">>
str_norepo == <<"r">>

\* The configurations of the composite-tool runs. Those that decide the
\* backend call: both modes, with and without a cloud id, without credentials
\* or with a personal access token. Those that decide the branch work (where
\* the backend call can succeed): inside a working copy, without and with
\* hosting credentials; outside one, with the hosting credentials absent,
\* partial, unusable or complete.
EnvMain ==
  {[NoEnv EXCEPT !.JIRA_BASE_URL = b, !.JIRA_CLOUD_ID = c,
                 !.JIRA_PERSONAL_ACCESS_TOKEN = t] :
     b \in {Undefined, url_jira}, c \in {Undefined, str_cloud1},
     t \in {Undefined, str_pat}}
  \cup
  {[NoEnv EXCEPT !.JIRA_BASE_URL = b, !.JIRA_CLOUD_ID = str_cloud1,
                 !.JIRA_PERSONAL_ACCESS_TOKEN = str_pat,
                 !.isGitRepo = h[1], !.GITHUB_TOKEN = h[2], !.GITHUB_REPO = h[3]] :
     b \in {Undefined, url_jira},
     h \in {<<TRUE, Undefined, Undefined>>, <<TRUE, str_ghtoken, str_repo>>,
            <<FALSE, str_ghtoken, Undefined>>, <<FALSE, str_ghtoken, str_norepo>>,
            <<FALSE, str_ghtoken, str_repo>>}}

\* The configurations of the Direct-API runs: every combination of absent,
\* blank and set for the base URL and the four credentials, and the cloud ids;
\* and, with a personal access token, the base URLs whose path is "/", has no
\* trailing slash, or has two.
EnvDirect ==
  {[NoEnv EXCEPT !.JIRA_BASE_URL = b, !.JIRA_CLOUD_ID = c[1], !.CLOUD_ID = c[2],
                 !.JIRA_API_TOKEN = at, !.JIRA_PERSONAL_ACCESS_TOKEN = pt,
                 !.JIRA_USERNAME = u, !.JIRA_EMAIL = m] :
     b \in {Undefined, str_blank, <<"https://h">>, url_jira, str_norepo},
     c \in {<<Undefined, Undefined>>, <<str_cloud1, Undefined>>,
            <<Undefined, <<"'","c","2","'">> >>},
     at \in {Undefined, str_blank, <<"t","o","k">>},
     pt \in {Undefined, str_blank, str_pat},
     u \in {Undefined, str_blank, <<"b","o","b">>},
     m \in {Undefined, str_blank, <<"b","@","x">>}}
  \cup
  {[NoEnv EXCEPT !.JIRA_BASE_URL = b, !.JIRA_PERSONAL_ACCESS_TOKEN = str_pat] :
     b \in {<<"https://h", "/">>, <<"https://h", "/", "j">>,
            <<"https://h", "/", "j", "/", "/">>}}

\* ------------------------------------------------------------ the outside world

\* What the outside answers to one backend call. Direct API: net (FALSE: the
\* socket fails), status (0: none) and body. Cloud: connect (the bridge comes
\* up), reject (the remote call is rejected) and result.
DefaultWorld ==
  [net |-> TRUE, status |-> 200, body |-> JSONstringify(EmptyObj),
   connect |-> TRUE, reject |-> FALSE, result |-> McpEnvelope(EmptyObj),
   tools |-> <<>>]

Statuses == {0, 199, 200, 299, 300, 404}

\* The longest transitions list the tracker answers with.
MaxTransitions == 2

TransitionPool ==
  {Transition(<<"1">>, <<"D","o","n","e">>, <<"C","l","o","s","e","d">>),
   Transition(<<"2">>, <<"I","n"," ","R","e","v","i","e","w">>, Undefined),
   Transition(<<"3">>, <<"S","u","b","m","i","t">>,
              <<"C","o","d","e"," ","R","E","V","I","E","W">>),
   Transition(<<"4">>, Undefined, Undefined)}

TransitionLists ==
  UNION {[1..n -> TransitionPool] : n \in 0..MaxTransitions}

str_html == <<"<","h","t","m","l",">">>

\* What the tracker may say about a tool call, as an object.
Payloads(name) ==
  CASE name = "createJiraIssue" ->
         {EmptyObj,
          [EmptyObj EXCEPT !.key = str_OPS7, !.id = str_10000],
          [EmptyObj EXCEPT !.id = str_10000],
          [EmptyObj EXCEPT !.id = NumId],
          [EmptyObj EXCEPT !.error = <<"e">>, !.key = str_OPS7]}
    [] name = "getTransitionsForJiraIssue" ->
         {[EmptyObj EXCEPT !.hasTransitions = TRUE, !.transitions = l] :
            l \in TransitionLists}
    [] OTHER -> {EmptyObj, [EmptyObj EXCEPT !.key = str_OPS7]}

Bodies(name) ==
  {PlainText(<<>>), PlainText(str_blank), PlainText(str_html)}
    \cup {JSONstringify(p) : p \in Payloads(name)}

HttpWorlds(name) ==
  {[DefaultWorld EXCEPT !.net = FALSE]}
    \cup {[DefaultWorld EXCEPT !.status = s, !.body = b] :
            s \in Statuses, b \in Bodies(name)}

\* A Cloud result: the payload in a text block, the payload as the result's
\* own fields, a result flagged isError, a text block that is not JSON.
CloudResults(name) ==
  {McpEnvelope(p) : p \in Payloads(name)}
    \cup Payloads(name)
    \cup {[McpEnvelope([EmptyObj EXCEPT !.key = str_OPS7]) EXCEPT !.isError = TRUE],
          [EmptyObj EXCEPT !.hasContent = TRUE,
                           !.content = <<TextBlock(PlainText(
                             <<"C","r","e","a","t","e","d"," ","O","P","S","-","7">>))>>]}

CloudWorlds(name) ==
  {[DefaultWorld EXCEPT !.connect = FALSE], [DefaultWorld EXCEPT !.reject = TRUE]}
    \cup {[DefaultWorld EXCEPT !.result = r] : r \in CloudResults(name)}

Worlds(e, name) ==
  IF getJiraType(e) = "datacenter" THEN HttpWorlds(name) ELSE CloudWorlds(name)

\* What the outside answers to a tools/list: nothing is asked on the Direct
\* API; on Cloud the bridge fails, the remote rejects, or it lists its tools.
ListWorlds(e) ==
  IF getJiraType(e) = "datacenter" THEN {DefaultWorld}
  ELSE {[DefaultWorld EXCEPT !.connect = FALSE], [DefaultWorld EXCEPT !.reject = TRUE]}
         \cup {[DefaultWorld EXCEPT !.tools = t] :
                 t \in {<<>>, <<"getJiraIssue", "searchJiraIssuesUsingJql">>}}

\* The exits of the git commands of one Local run.
AllOk ==
  [fetch |-> TRUE, checkout |-> TRUE, create |-> TRUE, pull |-> TRUE,
   probe |-> "absent", target |-> TRUE]
\* (create is drawn only where it is run: after a failed checkout)
StepOutcomes ==
  {st \in [fetch : BOOLEAN, checkout : BOOLEAN, create : BOOLEAN, pull : BOOLEAN,
           probe : {"found", "absent", "fail"}, target : BOOLEAN] :
     st.checkout => st.create}

\* The hosting API's answers of one Remote run.
HubOk == [read |-> "ok", sha |-> <<"a","b","c">>, write |-> TRUE]
\* (a 2xx body whose object has no sha makes the read return undefined)
HubOutcomes ==
  [read : {"ok", "fail", "malformed"}, sha : {<<"a","b","c">>, Undefined},
   write : BOOLEAN]

\* ------------------------------------------------------------ tool calls

str_pOPS == <<" ","O","P","S"," ">>
str_desc == <<"d">>
str_High == <<"H","i","g","h">>

CloudIdArgs == {Undefined, str_cloud1}
BranchNameArgs == {Undefined, str_blank, <<"F","i","x"," ","B","u","g","!">>}
RequiredArgs == {Undefined, str_blank}

ValidCreate ==
  [NoArgs EXCEPT !.projectKey = str_pOPS, !.issueTypeName = str_Task, !.summary = str_Fix]

\* The createJiraIssueWithBranch calls: each required argument missing, blank
\* or given; and, with all three given, the optional arguments.
CreateCalls ==
  {[ValidCreate EXCEPT !.projectKey = pk, !.issueTypeName = it, !.summary = su,
                       !.cloudId = c] :
     pk \in RequiredArgs \cup {str_pOPS}, it \in RequiredArgs \cup {str_Task},
     su \in RequiredArgs \cup {str_Fix}, c \in CloudIdArgs}
  \cup
  {[ValidCreate EXCEPT !.cloudId = str_cloud1, !.branchName = bn] :
     bn \in BranchNameArgs}
  \cup
  {[ValidCreate EXCEPT !.cloudId = str_cloud1, !.description = d,
                       !.hasFields = TRUE, !.fields = f] :
     d \in {str_blank, str_desc},
     f \in {<<>>, << <<"priority", str_High>> >>,
            << <<"summary", str_High>>, <<"priority", str_High>> >>}}

\* The longest padding of an assignee string.
MaxPad == 31

Pad(n) == [i \in 1..n |-> "x"]

AssigneeBases ==
  {<<>>, str_unassign, <<"U","n","A","s","s","i","g","n">>, <<"a","@","b">>,
   <<"a",":","b">>, <<"@",":">>, <<"j","o","h","n">>}

\* The assignee strings: each base alone and padded to the lengths around the
\* account-id threshold.
AssigneeInputs ==
  {b \o Pad(n) : b \in AssigneeBases,
                 n \in {0} \cup {k \in 0..MaxPad : k >= AccountIdLength - 4}}

AssignCalls ==
  {[NoArgs EXCEPT !.cloudId = str_cloud1, !.issueIdOrKey = str_OPS7, !.assignee = x] :
     x \in AssigneeInputs \cup {Undefined}}
  \cup {[NoArgs EXCEPT !.issueIdOrKey = str_OPS7, !.assignee = str_unassign]}

TransitionCalls ==
  {[NoArgs EXCEPT !.cloudId = c, !.issueIdOrKey = str_OPS7] : c \in CloudIdArgs}

AnalyzeCalls ==
  {[NoArgs EXCEPT !.cloudId = c, !.issueIdOrKey = k] :
     c \in CloudIdArgs, k \in {Undefined, str_blank, str_OPS7}}
  \cup
  {[NoArgs EXCEPT !.cloudId = str_cloud1, !.issueIdOrKey = k, !.branchName = bn] :
     k \in {str_OPS7, <<" ","O","P","S","-","7"," ">>}, bn \in BranchNameArgs}

\* Tool names the server does not handle itself: the ones the Direct-API
\* adapter maps and two it does not.
OtherTools == DataCenterTools \cup {"searchJiraIssuesUsingJql", "lookupJiraAccountId"}

OtherCall ==
  [NoArgs EXCEPT !.cloudId = str_cloud1, !.issueIdOrKey = str_OPS7,
                 !.projectKey = <<"O","P","S">>, !.issueTypeName = str_Task,
                 !.summary = str_Fix, !.transitionId = <<"2">>,
                 !.commentBody = str_desc]

\* ------------------------------------------------------------ the server

VARIABLES
  env,        \* the configuration (process.env, the working directory)
  jiraClient, \* the shared Cloud client
  pc,         \* "idle", "backend" (awaiting callJiraTool), "after", "done"
  request,    \* the tool call being answered
  pending,    \* the backend call being awaited
  res,        \* what the last backend call returned
  outcome,    \* what the handler returned or threw
  calls,      \* the callJiraTool calls of this request, in order
  http,       \* the HTTP requests sent to the tracker
  cloud,      \* the requests put on the Cloud client
  branch,     \* the branch automation: its commands and whether it raised
  worlds,     \* the answers of the outside to the backend calls, in order
  steps,      \* the exits of the git commands
  hubw,       \* the answers of the hosting API
  handlers    \* the handlers in flight together, each at its await

vars ==
  <<env, jiraClient, pc, request, pending, res, outcome, calls, http, cloud, branch,
    worlds, steps, hubw, handlers>>

NoRequest == [tool |-> "", args |-> NoArgs]
NoPending == [name |-> "", args |-> NoArgs]
NoBranch == [threw |-> FALSE, raised |-> FALSE, git |-> <<>>, hub |-> <<>>]

\* The handlers the SDK's dispatcher may have in flight at once, and one that
\* is not running: at is where it waits, method the request it makes on the
\* Cloud client, sent whether it has put that request on the client,
\* connected whether connect() had completed on the client by then.
Handlers == {"first", "second"}
NoHandler == [at |-> "idle", method |-> "", sent |-> FALSE, connected |-> FALSE]

InitWith(envs) ==
  /\ env \in envs
  /\ jiraClient = NoClient
  /\ pc = "idle"
  /\ request = NoRequest
  /\ pending = NoPending
  /\ res = EmptyObj
  /\ outcome = NoOutcome
  /\ calls = <<>>
  /\ http = <<>>
  /\ cloud = <<>>
  /\ branch = NoBranch
  /\ worlds = <<>>
  /\ steps = AllOk
  /\ hubw = HubOk
  /\ handlers = [h \in Handlers |-> NoHandler]

Init == InitWith(EnvMain)

\* A handler starts: it runs up to its first backend call, or throws before.
Start(tool, a, b) ==
  /\ request' = [tool |-> tool, args |-> a]
  /\ IF b.ok
     THEN /\ pending' = [name |-> b.name, args |-> b.args]
          /\ pc' = "backend"
          /\ outcome' = outcome
     ELSE /\ pending' = pending
          /\ pc' = "done"
          /\ outcome' = Thrown(b.err)
  /\ UNCHANGED <<env, jiraClient, res, calls, http, cloud, branch, worlds, steps, hubw,
                 handlers>>

CallCreateJiraIssueWithBranch ==
  /\ pc = "idle"
  /\ \E a \in CreateCalls :
       Start("createJiraIssueWithBranch", a, createJiraIssueWithBranch(env, a))

CallAssignJiraIssueWithAnalysis ==
  /\ pc = "idle"
  /\ \E a \in AssignCalls :
       Start("assignJiraIssueWithAnalysis", a, assignJiraIssueWithAnalysis(env, a))

CallTransitionJiraIssueToReview ==
  /\ pc = "idle"
  /\ \E a \in TransitionCalls :
       Start("transitionJiraIssueToReview", a, transitionJiraIssueToReview(env, a))

CallAnalyzeJiraIssue ==
  /\ pc = "idle"
  /\ \E a \in AnalyzeCalls :
       Start("analyzeJiraIssue", a, analyzeJiraIssue(env, a))

\* line 941: any other tool name goes to callJiraTool as it is
CallOtherTool ==
  /\ pc = "idle"
  /\ \E toolName \in OtherTools :
       Start(toolName, OtherCall, CallBackend(toolName, OtherCall))

\* The ListTools handler, lines 603-747 (its one await chain is the Cloud
\* client's; nothing is awaited on the Direct API).
ListTools ==
  /\ pc = "idle"
  /\ \E w \in ListWorlds(env) :
       \E r \in {listTools(env, jiraClient, w)} :
         /\ request' = [tool |-> "tools/list", args |-> NoArgs]
         /\ jiraClient' = r.client
         /\ cloud' = r.cloud
         /\ worlds' = <<w>>
         /\ outcome' = IF r.ok THEN Returned(Listed(r.tools)) ELSE Thrown(r.err)
         /\ pc' = "done"
  /\ UNCHANGED <<env, pending, res, calls, http, branch, steps, hubw, handlers>>

\* The outside's answer as far as the call asked for it.
Heard(r, w) ==
  IF r.http = <<>> /\ r.cloud = <<>> /\ r.setups = 0 THEN DefaultWorld ELSE w

\* `await callJiraTool(name, args)`: the call runs against what the outside
\* answers; a rejection leaves the handler through its catch (rethrown).
Backend ==
  /\ pc = "backend"
  /\ \E w \in Worlds(env, pending.name) :
       \E r \in {callJiraTool(env, jiraClient, pending.name, pending.args, w)} :
         /\ jiraClient' = r.client
         /\ calls' = Append(calls, [name |-> pending.name, args |-> pending.args,
                                    backend |-> r.backend, setups |-> r.setups,
                                    ok |-> r.ok])
         /\ http' = http \o r.http
         /\ cloud' = cloud \o r.cloud
         /\ worlds' = Append(worlds, Heard(r, w))
         /\ IF r.ok
            THEN /\ res' = r.val
                 /\ pc' = "after"
                 /\ outcome' = outcome
            ELSE /\ res' = res
                 /\ pc' = "done"
                 /\ outcome' = Thrown(r.err)
  /\ UNCHANGED <<env, request, pending, branch, steps, hubw, handlers>>

\* The handler answers.
Finish(o) ==
  /\ pc' = "done"
  /\ outcome' = o
  /\ UNCHANGED <<env, jiraClient, request, pending, res, calls, http, cloud, worlds,
                 handlers>>

\* lines 818-834: handleCreateResponse, then the envelope
AfterCreateJiraIssue ==
  /\ pc = "after"
  /\ request.tool = "createJiraIssueWithBranch"
  /\ \E st \in (IF env.isGitRepo THEN StepOutcomes ELSE {AllOk}),
        hw \in (IF env.isGitRepo THEN {HubOk} ELSE HubOutcomes) :
       \E h \in {handleCreateResponse(env, res, request.args.branchName, st, hw)} :
         /\ h.git = <<>> => st = AllOk
         /\ h.hub = <<>> => hw = HubOk
         /\ branch' = [threw |-> h.threw, raised |-> h.raised, git |-> h.git,
                       hub |-> h.hub]
         /\ steps' = st
         /\ hubw' = hw
         /\ Finish(CreateAnswer(res, h))

\* lines 858-869
AfterEditJiraIssue ==
  /\ pc = "after"
  /\ request.tool = "assignJiraIssueWithAnalysis"
  /\ Finish(AssignAnswer(request.args, res))
  /\ UNCHANGED <<branch, steps, hubw>>

\* lines 880-894: the selection, then the second backend call or the throw
AfterGetTransitions ==
  /\ pc = "after"
  /\ request.tool = "transitionJiraIssueToReview"
  /\ pending.name = "getTransitionsForJiraIssue"
  /\ \E b \in {SelectReviewTransition(pending.args, res)} :
       IF b.ok
       THEN /\ pending' = [name |-> b.name, args |-> b.args]
            /\ pc' = "backend"
            /\ outcome' = outcome
       ELSE /\ pending' = pending
            /\ pc' = "done"
            /\ outcome' = Thrown(b.err)
  /\ UNCHANGED <<env, jiraClient, request, res, calls, http, cloud, branch, worlds,
                 steps, hubw, handlers>>

\* lines 896-907
AfterTransitionJiraIssue ==
  /\ pc = "after"
  /\ request.tool = "transitionJiraIssueToReview"
  /\ pending.name = "transitionJiraIssue"
  /\ Finish(ReviewAnswer(request.args, res))
  /\ UNCHANGED <<branch, steps, hubw>>

\* The second half of analyzeJiraIssue with the branch keyed on the
\* identifier as it was passed, not trimmed.
AfterGetJiraIssueKeyedOnRaw ==
  /\ pc = "after"
  /\ request.tool = "analyzeJiraIssue"
  /\ \E st \in (IF env.isGitRepo THEN StepOutcomes ELSE {AllOk}) :
       \E b \in {createGitLabBranch(env, request.args.issueIdOrKey,
                                    request.args.branchName, st)} :
         /\ branch' = [threw |-> b.threw, raised |-> b.threw, git |-> b.log,
                       hub |-> <<>>]
         /\ steps' = st
         /\ hubw' = hubw
         /\ Finish(AnalyzeAnswer(request.args, res, b))

\* lines 923-938: createGitLabBranch, then the envelope
AfterGetJiraIssue ==
  /\ pc = "after"
  /\ request.tool = "analyzeJiraIssue"
  /\ \E st \in (IF env.isGitRepo THEN StepOutcomes ELSE {AllOk}) :
       \E b \in {createGitLabBranch(env, Trim(request.args.issueIdOrKey),
                                    request.args.branchName, st)} :
         /\ branch' = [threw |-> b.threw, raised |-> b.threw, git |-> b.log,
                       hub |-> <<>>]
         /\ steps' = st
         /\ hubw' = hubw
         /\ Finish(AnalyzeAnswer(request.args, res, b))

\* line 941: the backend's result is the answer
AfterOtherTool ==
  /\ pc = "after"
  /\ request.tool \in OtherTools
  /\ Finish(Returned(Raw(res)))
  /\ UNCHANGED <<branch, steps, hubw>>

\* The answer is delivered; the server waits for the next call.
Respond ==
  /\ pc = "done"
  /\ pc' = "idle"
  /\ request' = NoRequest
  /\ pending' = NoPending
  /\ res' = EmptyObj
  /\ outcome' = NoOutcome
  /\ calls' = <<>>
  /\ http' = <<>>
  /\ cloud' = <<>>
  /\ branch' = NoBranch
  /\ worlds' = <<>>
  /\ steps' = AllOk
  /\ hubw' = HubOk
  /\ UNCHANGED <<env, jiraClient, handlers>>

Next ==
  \/ CallCreateJiraIssueWithBranch
  \/ CallAssignJiraIssueWithAnalysis
  \/ CallTransitionJiraIssueToReview
  \/ CallAnalyzeJiraIssue
  \/ CallOtherTool
  \/ ListTools
  \/ Backend
  \/ AfterCreateJiraIssue
  \/ AfterEditJiraIssue
  \/ AfterGetTransitions
  \/ AfterTransitionJiraIssue
  \/ AfterGetJiraIssue
  \/ AfterOtherTool
  \/ Respond

Spec == Init /\ [][Next]_vars

\* The Direct-API adapter under every credential configuration: pass-through
\* calls only.
InitDirect == InitWith(EnvDirect)

NextDirect ==
  \/ CallOtherTool
  \/ Backend
  \/ AfterOtherTool
  \/ Respond

SpecDirect == InitDirect /\ [][NextDirect]_vars

\* ------------------------------------------------------------ result shapes

\* The longest content array of a result.
MaxBlocks == 2

str_AB1 == <<"A","B","-","1">>
str_CD22 == <<"C","D","-","2","2">>

\* Content blocks: text that is JSON (without an issue key, with key, with
\* fields.key and id, with id alone), text that is not JSON (with no key,
\* with several candidates), an empty text, a block that is not text.
BlockPool ==
  {TextBlock(JSONstringify(EmptyObj)),
   TextBlock(JSONstringify([EmptyObj EXCEPT !.key = str_OPS7])),
   TextBlock(JSONstringify([EmptyObj EXCEPT !.fkey = str_AB1, !.id = str_10000])),
   TextBlock(JSONstringify([EmptyObj EXCEPT !.id = str_10000])),
   TextBlock(PlainText(str_html)),
   TextBlock(PlainText(<<"b","-","1"," ","x","C","D","-","2","2","."," ","E","-","3">>)),
   TextBlock(PlainText(<<>>)),
   [type |-> "resource", text |-> PlainText(str_OPS7)]}

Contents == UNION {[1..n -> BlockPool] : n \in 0..MaxBlocks}

\* The results a createJiraIssue call may return: with a content array (and
\* perhaps fields and error flags of its own), or flat.
ToolResults ==
  {[EmptyObj EXCEPT !.hasContent = TRUE, !.content = c, !.key = t[1],
                    !.isError = t[2], !.error = t[3]] :
     c \in Contents,
     t \in {<<Undefined, FALSE, Undefined>>, <<str_CD22, FALSE, Undefined>>,
            <<str_CD22, TRUE, Undefined>>, <<str_CD22, FALSE, <<"e">> >>}}
  \cup
  {[EmptyObj EXCEPT !.key = k, !.fkey = f, !.id = i, !.issueKey = ik,
                    !.isError = t[1], !.error = t[2]] :
     k \in {Undefined, <<>>, str_OPS7}, f \in {Undefined, str_AB1},
     i \in {Undefined, str_10000, NumId}, ik \in {Undefined, str_CD22},
     t \in {<<FALSE, Undefined>>, <<TRUE, Undefined>>, <<FALSE, <<"e">> >>}}

\* Cloud configurations that differ in where a branch can be made.
EnvNormalize ==
  {[NoEnv EXCEPT !.JIRA_CLOUD_ID = str_cloud1,
                 !.isGitRepo = h[1], !.GITHUB_TOKEN = h[2], !.GITHUB_REPO = h[3]] :
     h \in {<<TRUE, Undefined, Undefined>>, <<TRUE, str_ghtoken, str_repo>>,
            <<FALSE, str_ghtoken, str_repo>>, <<FALSE, str_ghtoken, Undefined>>,
            <<FALSE, Undefined, str_repo>>, <<FALSE, Undefined, Undefined>>}}

\* createJiraIssueWithBranch at the point where its createJiraIssue call on
\* the Cloud client has returned: with one of `results`, the call having
\* been made with one of the branch names `names`.
InitAfterCreate(results, names) ==
  /\ env \in EnvNormalize
  /\ jiraClient = [created |-> TRUE, connected |-> TRUE, made |-> 1]
  /\ pc = "after"
  /\ \E bn \in names :
       request = [tool |-> "createJiraIssueWithBranch",
                  args |-> [ValidCreate EXCEPT !.branchName = bn]]
  /\ pending = [name |-> "createJiraIssue", args |-> CreateArgs(env, ValidCreate, str_cloud1)]
  /\ res \in results
  /\ outcome = NoOutcome
  /\ calls = <<[name |-> pending.name, args |-> pending.args, backend |-> "cloud",
                setups |-> 1, ok |-> TRUE]>>
  /\ http = <<>>
  /\ cloud = <<pending>>
  /\ branch = NoBranch
  /\ worlds = <<[DefaultWorld EXCEPT !.result = res]>>
  /\ steps = AllOk
  /\ hubw = HubOk
  /\ handlers = [h \in Handlers |-> NoHandler]

InitNormalize == InitAfterCreate(ToolResults, {Undefined})

NextNormalize ==
  \/ AfterCreateJiraIssue
  \/ Respond

SpecNormalize == InitNormalize /\ [][NextNormalize]_vars

\* ------------------------------------------------------------ additional fields

\* The most keys of an additional-fields map.
MaxFields == 2

\* The additional-fields maps: up to MaxFields distinct keys among the two the
\* handler drops, one spelt differently, the three the REST body is built
\* around, and an ordinary one; each with a value of its own.
FieldMaps ==
  LET keys == {"summary", "description", "Summary", "project", "issuetype", "priority"}
  IN {f \in UNION {[1..n -> keys \X {str_High}] : n \in 0..MaxFields} :
        \A i, j \in 1..Len(f) : i # j => f[i][1] # f[j][1]}

\* createJiraIssueWithBranch called with an additional-fields map.
CallCreateWithFields ==
  /\ pc = "idle"
  /\ \E f \in FieldMaps :
       \E a \in {[ValidCreate EXCEPT !.cloudId = str_cloud1, !.description = str_desc,
                                     !.hasFields = TRUE, !.fields = f]} :
         Start("createJiraIssueWithBranch", a, createJiraIssueWithBranch(env, a))

NextFields ==
  \/ CallCreateWithFields
  \/ Backend
  \/ AfterCreateJiraIssue
  \/ Respond

\* Both backends, outside a working copy and without hosting credentials.
InitFields ==
  InitWith({e \in EnvMain : /\ ~e.isGitRepo
                            /\ e.GITHUB_TOKEN = Undefined
                            /\ e.JIRA_CLOUD_ID = str_cloud1
                            /\ e.JIRA_PERSONAL_ACCESS_TOKEN = str_pat})

SpecFields == InitFields /\ [][NextFields]_vars

\* ------------------------------------------------------------ branch names given

\* The longest custom branch name.
MaxNameLen == 101

\* Custom branch names: with capitals, blanks and punctuation; without any
\* Latin letter or digit; with hyphens at the ends and doubled; of the
\* lengths around the truncation; with a separator at the truncation; with
\* Cyrillic letters, lower-case and upper-case, and the soft sign.
BranchNames ==
  {<<"F","i","x"," ","B","u","g","!">>,
   <<"!","!","!">>,
   <<"-","-","F","i","x","_","-","b","u","g","-">>,
   Pad(BranchMaxLen - 1) \o <<"_","b">>,
   <<"U+0431","U+0430","U+0433","1","2","3">>,
   <<"U+0429","U+044C"," ","7">>}
  \cup {Pad(n) : n \in (BranchMaxLen - 1)..MaxNameLen}
  \cup {Undefined, <<" ", " ">>}

InitSanitize ==
  InitAfterCreate({McpEnvelope([EmptyObj EXCEPT !.key = str_OPS7])}, BranchNames)

SpecSanitize == InitSanitize /\ [][NextNormalize]_vars

\* ------------------------------------------------------------ handlers in flight together

\* The SDK's dispatcher starts a handler for each message as it arrives and
\* does not wait for the one before it; each handler runs to its next await.
\* What the handlers ask of the Cloud client: the tool listing of the
\* ListTools handler (line 608) and the tools/call of callJiraTool (line 62).
CloudMethods == {"tools/list", "tools/call"}

\* A handler starts in Cloud mode and runs getJiraClient (lines 41-51) up to
\* its first await. Without a client it stores a new one (line 47) and awaits
\* connect() (line 48). With a client stored it gets that client at once and
\* puts its request on it (lines 62-65 and 608-611), whether or not the
\* connect() another handler awaits has completed.
EnterGetJiraClient(h) ==
  /\ handlers[h].at = "idle"
  /\ \E m \in CloudMethods :
       IF ~jiraClient.created
       THEN /\ jiraClient' = [created |-> TRUE, connected |-> FALSE,
                              made |-> jiraClient.made + 1]
            /\ handlers' = [handlers EXCEPT ![h] =
                              [at |-> "connect", method |-> m, sent |-> FALSE,
                               connected |-> FALSE]]
       ELSE /\ jiraClient' = jiraClient
            /\ handlers' = [handlers EXCEPT ![h] =
                              [at |-> "request", method |-> m, sent |-> TRUE,
                               connected |-> jiraClient.connected]]
  /\ UNCHANGED <<env, pc, request, pending, res, outcome, calls, http, cloud, branch,
                 worlds, steps, hubw>>

\* `await jiraClient.connect(jiraTransport)` settles (line 48): fulfilled, the
\* handler goes on to its request; rejected, the handler throws and the
\* client stays stored as it is.
ConnectSettles(h) ==
  /\ handlers[h].at = "connect"
  /\ \E up \in BOOLEAN :
       IF up
       THEN /\ jiraClient' = [jiraClient EXCEPT !.connected = TRUE]
            /\ handlers' = [handlers EXCEPT ![h].at = "request", ![h].sent = TRUE,
                                            ![h].connected = TRUE]
       ELSE /\ jiraClient' = jiraClient
            /\ handlers' = [handlers EXCEPT ![h].at = "done"]
  /\ UNCHANGED <<env, pc, request, pending, res, outcome, calls, http, cloud, branch,
                 worlds, steps, hubw>>

\* `await client.request(...)` settles, with a result or a rejection; the
\* handler returns or throws.
RequestSettles(h) ==
  /\ handlers[h].at = "request"
  /\ handlers' = [handlers EXCEPT ![h].at = "done"]
  /\ UNCHANGED <<env, jiraClient, pc, request, pending, res, outcome, calls, http,
                 cloud, branch, worlds, steps, hubw>>

\* The handler's answer is delivered.
HandlerReturns(h) ==
  /\ handlers[h].at = "done"
  /\ handlers' = [handlers EXCEPT ![h] = NoHandler]
  /\ UNCHANGED <<env, jiraClient, pc, request, pending, res, outcome, calls, http,
                 cloud, branch, worlds, steps, hubw>>

InitInterleaved == InitWith({e \in EnvMain : getJiraType(e) = "cloud"})

NextInterleaved ==
  \E h \in Handlers :
    \/ EnterGetJiraClient(h)
    \/ ConnectSettles(h)
    \/ RequestSettles(h)
    \/ HandlerReturns(h)

SpecInterleaved == InitInterleaved /\ [][NextInterleaved]_vars

\* ------------------------------------------------------------ properties

\* What the backend said in answer to call i: the JSON of the response body
\* on the Direct API, the result of the remote call on the Cloud proxy.
Said(i) ==
  IF calls[i].backend = "datacenter" THEN JSONparse(worlds[i].body).val
  ELSE worlds[i].result

\* The first backend call of the request has returned.
Returned1 == calls # <<>> /\ calls[1].ok

\* C1: the branch orchestrator always returns normally: whatever the exits of
\* its steps (fetch, checkout, create, pull, probe, target; ref read, ref
\* create), neither createGitLabBranch nor createGitHubBranch raises to the
\* dispatch, and nothing leaves handleCreateResponse or reaches the handler.
C1_OrchestratorNeverRaises == ~branch.threw /\ ~branch.raised

\* Every step of a Local run has failed.
C1_Witness ==
  /\ pc = "done"
  /\ branch.git # <<>>
  /\ ~steps.fetch /\ ~steps.checkout /\ ~steps.create /\ ~steps.pull
  /\ steps.probe = "fail" /\ ~steps.target

\* C2: once the backend call of createJiraIssueWithBranch or analyzeJiraIssue
\* has returned, the handler returns the success envelope, and its fields are
\* those the backend result and the arguments determine: the same for every
\* outcome of the git commands and of the hosting API.
C2_EnvelopeIndependentOfBranchSteps ==
  /\ (pc = "done" /\ request.tool = "createJiraIssueWithBranch" /\ Returned1)
       => /\ outcome.kind = "return"
          /\ outcome.envelope =
               Envelope(ExtractIssueKey(res).issueKey,
                        CreatedMessage(ExtractIssueKey(res).issueKey), res)
  /\ (pc = "done" /\ request.tool = "analyzeJiraIssue" /\ Returned1)
       => /\ outcome.kind = "return"
          /\ outcome.envelope.success
          /\ outcome.envelope.issueKey = Trim(request.args.issueIdOrKey)
          /\ outcome.envelope.message.key = request.args.issueIdOrKey
          /\ outcome.envelope.data = res

\* An issue was created and the checkout of its branch failed.
C2_Witness ==
  /\ pc = "done"
  /\ request.tool = "createJiraIssueWithBranch"
  /\ branch.git # <<>>
  /\ ~steps.pull /\ ~steps.target
  /\ outcome.envelope.issueKey = str_OPS7

\* The required arguments of createJiraIssueWithBranch that are missing or blank.
InvalidFields(a) ==
  {f \in {"projectKey", "issueTypeName", "summary"} : Blank(a[f])}

\* C3: createJiraIssueWithBranch with a required argument missing or blank
\* fails with the validation error naming an offending field, with no backend
\* call, no HTTP request, no Cloud request and no branch step, in every
\* configuration.
C3_ValidationErrorInEveryConfiguration ==
  (pc = "done" /\ request.tool = "createJiraIssueWithBranch"
     /\ InvalidFields(request.args) # {})
    => /\ outcome.kind = "throw"
       /\ outcome.err.msg = "is required and cannot be empty"
       /\ outcome.err.name \in InvalidFields(request.args)
       /\ calls = <<>> /\ http = <<>> /\ cloud = <<>>
       /\ branch.git = <<>> /\ branch.hub = <<>>

\* C4: when the tracker's transitions for the issue hold a transition whose
\* name or target status name contains "review", the handler goes on to call
\* transitionJiraIssue with the id of the first such transition, on both
\* backends.
C4_FirstReviewTransitionExecuted ==
  (pc = "done" /\ request.tool = "transitionJiraIssueToReview" /\ Returned1
     /\ FindReview(Said(1).transitions) # 0)
    => /\ Len(calls) = 2
       /\ calls[2].name = "transitionJiraIssue"
       /\ calls[2].args.transitionId =
            Said(1).transitions[FindReview(Said(1).transitions)].id

\* C5: the transitionJiraIssue call is only ever the second call, after a
\* transitions fetch that returned a review transition; and when the fetch
\* returned none, the handler throws its explicit error after that one call.
C5_NoReviewNoTransition ==
  request.tool = "transitionJiraIssueToReview" =>
    /\ pending.name = "transitionJiraIssue"
         => Returned1 /\ FindReview(Said(1).transitions) # 0
    /\ \A i \in 1..Len(calls) :
         calls[i].name = "transitionJiraIssue"
           => i = 2 /\ calls[1].name = "getTransitionsForJiraIssue" /\ calls[1].ok
    /\ (pc = "done" /\ Returned1 /\ FindReview(Said(1).transitions) = 0)
         => /\ outcome.kind = "throw"
            /\ outcome.err.msg = "No 'In Review' transition found for this issue"
            /\ Len(calls) = 1

\* The tracker offered transitions, none of them a review transition.
C5_Witness ==
  /\ pc = "done"
  /\ request.tool = "transitionJiraIssueToReview"
  /\ Returned1
  /\ Len(TransitionsOf(res)) = MaxTransitions
  /\ FindReview(TransitionsOf(res)) = 0
  /\ outcome.kind = "throw"

\* The form the precedence gives an assignee string.
ExpectedAssignee(x) ==
  IF x = <<>> \/ ToLowerCase(x) = <<"u","n","a","s","s","i","g","n">>
  THEN << <<"assignee", Null>> >>
  ELSE IF \E i \in 1..Len(x) : x[i] = "@"
  THEN << <<"assignee.emailAddress", x>> >>
  ELSE IF (\E i \in 1..Len(x) : x[i] = ":") \/ Len(x) > 30
  THEN << <<"assignee.accountId", x>> >>
  ELSE << <<"assignee.name", x>> >>

\* C6: the editJiraIssue call of assignJiraIssueWithAnalysis carries the form
\* the precedence gives: null for "" or "unassign" in any case, else
\* emailAddress for a string with "@", else accountId for one with ":" or
\* longer than 30, else name.
C6_AssigneeClassification ==
  request.tool = "assignJiraIssueWithAnalysis" =>
    /\ pc = "backend" =>
         /\ pending.name = "editJiraIssue"
         /\ pending.args.fields = ExpectedAssignee(request.args.assignee)
    /\ \A i \in 1..Len(calls) :
         /\ calls[i].name = "editJiraIssue"
         /\ calls[i].args.fields = ExpectedAssignee(request.args.assignee)

\* A string of exactly 30 characters with neither "@" nor ":" went out as a name.
C6_Witness ==
  /\ request.tool = "assignJiraIssueWithAnalysis"
  /\ calls # <<>>
  /\ Len(request.args.assignee) = 30
  /\ calls[1].args.fields = << <<"assignee.name", request.args.assignee>> >>

\* C7: every backend call goes to the Direct-API adapter when JIRA_BASE_URL
\* is set (to more than white space) and to the Cloud proxy when it is not,
\* whatever the cloud id, the tokens and the user names are.
C7_ModeFromBaseUrlOnly ==
  \A i \in 1..Len(calls) :
    IF ~Blank(env.JIRA_BASE_URL)
    THEN calls[i].backend = "datacenter" /\ cloud = <<>> /\ jiraClient = NoClient
    ELSE calls[i].backend = "cloud" /\ http = <<>>

\* A call went to the Direct API although a cloud id is configured.
C7_Witness ==
  /\ calls # <<>>
  /\ calls[1].backend = "datacenter"
  /\ env.JIRA_CLOUD_ID = str_cloud1
  /\ http # <<>>

\* C8: on a Direct-API call, a personal access token without a legacy token
\* gives Bearer with that token; else a legacy token with a user name or
\* e-mail gives Basic; else the call throws and sends nothing.
C8_AuthResolution ==
  (pc = "done" /\ calls # <<>> /\ calls[1].backend = "datacenter"
     /\ calls[1].name \in DataCenterTools /\ UrlValid(env.JIRA_BASE_URL))
    => LET pat == ~Blank(env.JIRA_PERSONAL_ACCESS_TOKEN)
           legacy == ~Blank(env.JIRA_API_TOKEN)
           user == ~Blank(env.JIRA_USERNAME) \/ ~Blank(env.JIRA_EMAIL)
       IN IF pat /\ ~legacy
          THEN /\ Len(http) = 1
               /\ http[1].auth.scheme = "Bearer"
               /\ http[1].auth.token = Trim(env.JIRA_PERSONAL_ACCESS_TOKEN)
          ELSE IF legacy /\ user
          THEN /\ Len(http) = 1
               /\ http[1].auth.scheme = "Basic"
               /\ http[1].auth.token = Trim(env.JIRA_API_TOKEN)
               /\ http[1].auth.user \in {Trim(env.JIRA_USERNAME), Trim(env.JIRA_EMAIL)}
          ELSE http = <<>> /\ outcome.kind = "throw"

\* C9: on the Direct-API backend a tool name without a REST mapping makes the
\* call throw the error naming the tool, with no HTTP request; it never
\* returns a result.
C9_UnmappedToolFails ==
  (pc \in {"after", "done"} /\ calls # <<>> /\ calls[1].backend = "datacenter"
     /\ calls[1].name \notin DataCenterTools)
    => /\ pc = "done"
       /\ outcome.kind = "throw"
       /\ outcome.err.msg = "Tool not yet implemented for Data Center"
       /\ outcome.err.name = request.tool
       /\ http = <<>>

\* An unmapped tool was called with the Direct API fully configured.
C9_Witness ==
  /\ pc = "done"
  /\ request.tool = "lookupJiraAccountId"
  /\ env.JIRA_BASE_URL = url_jira
  /\ env.JIRA_PERSONAL_ACCESS_TOKEN = str_pat
  /\ env.JIRA_API_TOKEN = Undefined
  /\ outcome.kind = "throw"

\* C10: on the Direct-API backend a response with a status outside 200..299
\* ends the tool call with the thrown error that carries that status and the
\* raw body; the call does not return.
C10_NonSuccessStatusFails ==
  \A i \in 1..Len(calls) :
    (calls[i].backend = "datacenter" /\ worlds[i].net
       /\ ~(worlds[i].status >= 200 /\ worlds[i].status <= 299))
      => /\ ~calls[i].ok
         /\ i = Len(calls)
         /\ pc = "done"
         /\ outcome.kind = "throw"
         /\ outcome.err.msg = "HTTP"
         /\ outcome.err.status = worlds[i].status
         /\ outcome.err.body = worlds[i].body

\* The tracker answered 404 with a page that is not JSON.
C10_Witness ==
  /\ pc = "done"
  /\ http # <<>>
  /\ worlds[Len(worlds)].status = 404
  /\ worlds[Len(worlds)].body = PlainText(str_html)
  /\ outcome.err.status = 404
  /\ outcome.err.body = PlainText(str_html)


\* s[i..j] is one or more upper-case letters, a hyphen, one or more digits.
KeyShapedAt(s, i, j) ==
  \E u \in i..(j - 2) :
    /\ s[u + 1] = "-"
    /\ \A k \in (u + 2)..j : IsDigit(s[k])
    /\ \A k \in i..u : IsUpperLetter(s[k])

IsKeyShaped(s) == KeyShapedAt(s, 1, Len(s))

\* The first substring of s of that shape: none starts further left, and
\* from its start none is longer. Null when s has none.
FirstKeyIn(s) ==
  LET n == Len(s)
      StartsAt(i) == \E j \in i..n : KeyShapedAt(s, i, j)
  IN IF \A i \in 1..n : ~StartsAt(i) THEN Null
     ELSE LET i == CHOOSE x \in 1..n : StartsAt(x) /\ \A y \in 1..(x - 1) : ~StartsAt(y)
              j == CHOOSE x \in i..n :
                     KeyShapedAt(s, i, x) /\ \A y \in (x + 1)..n : ~KeyShapedAt(s, i, y)
          IN SubSeq(s, i, j)

\* What one content block yields on its own: nothing (null) from a block that
\* is not text or whose text is empty; from JSON the first non-empty of key,
\* fields.key, id; from other text its first key-shaped substring.
BlockResult(b) ==
  IF b.type # "text" \/ (~b.text.json /\ b.text.chars = <<>>) THEN Null
  ELSE IF b.text.json
  THEN LET o == b.text.obj
       IN IF Truthy(o.key) THEN o.key
          ELSE IF Truthy(o.fkey) THEN o.fkey
          ELSE IF Truthy(o.id) THEN o.id
          ELSE Null
  ELSE FirstKeyIn(b.text.chars)

\* The result of the first block that yields one, null when none does.
RECURSIVE FirstSuccess(_)
FirstSuccess(content) ==
  IF content = <<>> THEN Null
  ELSE IF BlockResult(Head(content)) # Null THEN BlockResult(Head(content))
  ELSE FirstSuccess(Tail(content))

Flagged(r) == r.isError \/ Truthy(r.error)

\* handleCreateResponse has returned for a createJiraIssue result.
Normalised == pc = "done" /\ request.tool = "createJiraIssueWithBranch" /\ Returned1

\* C11: on a result with a content array and no error flag, the normaliser
\* returns what the first succeeding block yields: blocks in order, a JSON
\* block giving the first non-empty of key, fields.key, id and never the
\* regex, any other text block its first substring [A-Z]+-[0-9]+; null when
\* no block succeeds.
C11_ContentScanFirstSuccess ==
  (Normalised /\ ~Flagged(res) /\ res.hasContent)
    => outcome.envelope.issueKey = FirstSuccess(res.content)

\* A JSON block without a key is followed by a text block with several
\* candidates: the scan moved on and took the first candidate of the second.
C11_Witness ==
  /\ Normalised /\ ~Flagged(res) /\ res.hasContent
  /\ Len(res.content) = 2
  /\ res.content[1].text.json /\ BlockResult(res.content[1]) = Null
  /\ ~res.content[2].text.json
  /\ outcome.envelope.issueKey = str_CD22


\* The first of the values that is non-empty, null when none is.
FirstPresent(values) ==
  LET present == {i \in 1..Len(values) : Truthy(values[i])}
  IN IF present = {} THEN Null
     ELSE values[CHOOSE i \in present : \A j \in present : i <= j]

\* C12: on a result without a content array (and without an error flag) the
\* normaliser returns the first non-empty of key, fields.key, id, issueKey,
\* else null; on a result with a content array it returns only what a block
\* of the array yields, never a top-level field: null when no block yields,
\* whatever the top-level fields hold.
C12_FlatReadAndNoFallback ==
  /\ (Normalised /\ ~Flagged(res) /\ ~res.hasContent)
       => outcome.envelope.issueKey =
            FirstPresent(<<res.key, res.fkey, res.id, res.issueKey>>)
  /\ (Normalised /\ ~Flagged(res) /\ res.hasContent)
       => \/ outcome.envelope.issueKey = Null
          \/ \E i \in 1..Len(res.content) :
               /\ BlockResult(res.content[i]) # Null
               /\ BlockResult(res.content[i]) = outcome.envelope.issueKey

\* A flat result whose key is empty and which has an id and an issueKey: the
\* id is returned.
C12_Witness ==
  /\ Normalised /\ ~Flagged(res) /\ ~res.hasContent
  /\ res.key = <<>> /\ res.fkey = Undefined
  /\ res.id = str_10000 /\ res.issueKey = str_CD22
  /\ outcome.envelope.issueKey = str_10000


\* C13: a result that carries an error flag (isError, or an error field)
\* gives null, whatever its content or fields hold, and no branch step is
\* run for it: no git command, no hosting-API request.
C13_ErrorFlagGivesNullAndNoBranch ==
  (Normalised /\ Flagged(res))
    => /\ outcome.envelope.issueKey = Null
       /\ branch.git = <<>>
       /\ branch.hub = <<>>

\* A flagged result whose content holds a key, in a git working copy.
C13_Witness ==
  /\ Normalised /\ Truthy(res.error) /\ env.isGitRepo
  /\ res.hasContent /\ FirstSuccess(res.content) = str_OPS7
  /\ outcome.envelope.issueKey = Null


\* C14: every non-null value the normaliser returns, which is the issueKey of
\* the createJiraIssueWithBranch envelope and the key handed to the branch
\* strategies, is a string of the form [A-Z]+-[0-9]+.
C14_ReturnedKeyIsKeyShaped ==
  Normalised
    => \/ outcome.envelope.issueKey = Null
       \/ /\ IsString(outcome.envelope.issueKey)
          /\ IsKeyShaped(outcome.envelope.issueKey)


\* The call gave a custom branch name (one that is not blank).
CustomNameGiven ==
  Truthy(request.args.branchName) /\ Truthy(Trim(request.args.branchName))

\* The branch names the strategies have used: the one probed and checked out
\* locally, the one of the ref created through the hosting API.
NamesUsed ==
  {branch.git[i].arg : i \in {k \in 1..Len(branch.git) : branch.git[k].verb = "branch --list"}}
  \cup {branch.hub[i].ref : i \in {k \in 1..Len(branch.hub) : branch.hub[k].method = "POST"}}

\* s matches ^[a-z0-9]+(-[a-z0-9]+)*$
IsBranchToken(s) ==
  /\ s # <<>>
  /\ \A i \in 1..Len(s) : IsLowerAlnum(s[i]) \/ s[i] = "-"
  /\ s[1] # "-" /\ s[Len(s)] # "-"
  /\ \A i \in 1..(Len(s) - 1) : ~(s[i] = "-" /\ s[i + 1] = "-")

\* C15: the name sanitizeBranchName makes of a custom branch name, whatever
\* the name, has at most 100 characters and matches ^[a-z0-9]+(-[a-z0-9]+)*$:
\* it is not empty, has no hyphen at either end and no doubled hyphen.
C15_SanitizedNameIsToken ==
  (Normalised /\ CustomNameGiven)
    => \A n \in NamesUsed : Len(n) <= BranchMaxLen /\ IsBranchToken(n)

\* C16: the name made of a custom branch name is the name made of its
\* transliteration: Cyrillic letters go through the substitution table
\* before lower-casing and hyphenation, and their Latin forms are kept.
C16_CyrillicTransliterated ==
  (Normalised /\ CustomNameGiven)
    => \A n \in NamesUsed :
         n = Substring(StripHyphens(HyphenateRuns(ToLowerCase(
               transliterateToEnglish(Trim(request.args.branchName))))), BranchMaxLen)


\* C17: the Cloud connection is set up lazily and once: there is no client at
\* start-up; the client changes only in a step that needs the Cloud backend
\* (a backend call or a tool listing in Cloud mode) and only from no client
\* at all; so at most one client is ever constructed, and every later
\* operation works on that one.
C17_OneClientMadeOnFirstCloudUse ==
  /\ jiraClient = NoClient
  /\ [][/\ jiraClient'.made <= 1
        /\ jiraClient' # jiraClient
             => /\ jiraClient = NoClient
                /\ getJiraType(env) = "cloud"
                /\ pc = "backend" \/ (pc = "idle" /\ request'.tool = "tools/list")]_vars

\* A Cloud call that found the client of an earlier operation and used it.
C17_Witness ==
  /\ pc = "done"
  /\ calls # <<>>
  /\ calls[1].backend = "cloud" /\ calls[1].setups = 0 /\ calls[1].ok
  /\ jiraClient.made = 1


\* C18: a Cloud call that does not find a connected client tries to
\* establish the connection: after a failed establishment the next call
\* attempts it again.
C18_NextCallReconnects ==
  [][(pc = "backend" /\ getJiraType(env) = "cloud" /\ ~jiraClient.connected)
       => calls'[Len(calls')].setups = 1]_vars


\* C19: once a key is extracted, the place of the branch is chosen so: in a
\* git working copy only the Local strategy runs (no hosting-API request);
\* otherwise, with both the token and the repository configured, only the
\* Remote strategy runs (no git command); otherwise neither. Never both.
C19_OneLocation ==
  (Normalised /\ Truthy(outcome.envelope.issueKey))
    => LET key == outcome.envelope.issueKey
       IN /\ env.isGitRepo
               => branch.hub = <<>> /\ (IsString(key) => branch.git # <<>>)
          /\ (~env.isGitRepo /\ Truthy(env.GITHUB_TOKEN) /\ Truthy(env.GITHUB_REPO))
               => branch.git = <<>> /\ (IsString(key) => branch.hub # <<>>)
          /\ (~env.isGitRepo /\ ~(Truthy(env.GITHUB_TOKEN) /\ Truthy(env.GITHUB_REPO)))
               => branch.git = <<>> /\ branch.hub = <<>>
          /\ branch.git = <<>> \/ branch.hub = <<>>

\* A git working copy with the hosting credentials configured too: the
\* branch was made locally and the hosting API was left alone.
C19_Witness ==
  /\ Normalised
  /\ env.isGitRepo /\ Truthy(env.GITHUB_TOKEN) /\ Truthy(env.GITHUB_REPO)
  /\ outcome.envelope.issueKey = str_OPS7
  /\ branch.git # <<>> /\ branch.hub = <<>>


\* C20: analyzeJiraIssue sends nothing to the hosting API, whatever is
\* configured; it runs git commands only in a git working copy and only
\* once the issue fetch has returned; without a custom name the branch is
\* the lower-cased trimmed identifier; and it answers with the fetched issue
\* and the trimmed identifier as issueKey.
C20_AnalyzeLocalOnly ==
  request.tool = "analyzeJiraIssue"
    => /\ branch.hub = <<>>
       /\ branch.git # <<>>
            => Returned1 /\ calls[1].name = "getJiraIssue" /\ env.isGitRepo
       /\ ~CustomNameGiven
            => \A n \in NamesUsed : n = ToLowerCase(Trim(request.args.issueIdOrKey))
       /\ (pc = "done" /\ Returned1)
            => /\ outcome.kind = "return"
               /\ outcome.envelope.issueKey = Trim(request.args.issueIdOrKey)
               /\ outcome.envelope.data = res
               /\ env.isGitRepo => branch.git # <<>>

\* An identifier given with blanks around it, in a git working copy with the
\* hosting credentials configured: the branch ops-7 was made locally.
C20_Witness ==
  /\ pc = "done" /\ request.tool = "analyzeJiraIssue" /\ Returned1
  /\ env.isGitRepo /\ Truthy(env.GITHUB_TOKEN) /\ Truthy(env.GITHUB_REPO)
  /\ request.args.issueIdOrKey = <<" ","O","P","S","-","7"," ">>
  /\ ~CustomNameGiven
  /\ NamesUsed = {<<"o","p","s","-","7">>}
  /\ outcome.envelope.issueKey = str_OPS7


\* A tools/list request has been answered.
Listing == pc = "done" /\ request.tool = "tools/list"

\* t is the list `native` followed by the four composite tools, in order.
NativeThenComposite(t, native) ==
  /\ Len(t) = Len(native) + 4
  /\ SubSeq(t, 1, Len(native)) = native
  /\ SubSeq(t, Len(native) + 1, Len(t)) =
       <<"createJiraIssueWithBranch", "assignJiraIssueWithAnalysis",
         "transitionJiraIssueToReview", "analyzeJiraIssue">>

\* C21: a tools/list is answered with the native tools of the backend in use
\* followed by exactly the four composite tools. On the Direct API the native
\* tools are the server's own five and the Cloud client is neither made nor
\* used; on Cloud they are what the remote server lists, and when that
\* listing cannot be had (no connection, or the remote rejects) the request
\* fails.
C21_ListIsNativeThenComposite ==
  Listing
    => IF getJiraType(env) = "datacenter"
       THEN /\ outcome.kind = "return"
            /\ NativeThenComposite(outcome.envelope.tools,
                 <<"getJiraIssue", "createJiraIssue", "editJiraIssue",
                   "getTransitionsForJiraIssue", "transitionJiraIssue">>)
            /\ jiraClient = NoClient
            /\ cloud = <<>>
       ELSE IF jiraClient.connected /\ ~worlds[1].reject
       THEN /\ outcome.kind = "return"
            /\ NativeThenComposite(outcome.envelope.tools, worlds[1].tools)
       ELSE outcome.kind = "throw"

\* The remote server listed two tools and the answer has six.
C21_Witness ==
  /\ Listing
  /\ getJiraType(env) = "cloud"
  /\ worlds[1].tools # <<>>
  /\ outcome.kind = "return"
  /\ Len(outcome.envelope.tools) = 6


\* createJiraIssueWithBranch has built the arguments of its createJiraIssue
\* call.
CreateCallBuilt ==
  request.tool = "createJiraIssueWithBranch" /\ pending.name = "createJiraIssue"

\* C22: the fields map createJiraIssueWithBranch passes to createJiraIssue
\* has no summary and no description key; it has every other key of the
\* given map, in order and with its value; and it is left out when nothing
\* remains.
C22_FieldsWithoutSummaryAndDescription ==
  CreateCallBuilt
    => LET given == IF request.args.hasFields THEN request.args.fields ELSE <<>>
           sent == pending.args.fields
       IN /\ \A i \in 1..Len(sent) : sent[i][1] \notin {"summary", "description"}
          /\ sent = SelectSeq(given, LAMBDA kv : kv[1] \notin {"summary", "description"})
          /\ pending.args.hasFields <=> sent # <<>>

\* A map with a description and a priority: the priority alone is passed on.
C22_Witness ==
  /\ CreateCallBuilt
  /\ request.args.fields = << <<"description", str_High>>, <<"priority", str_High>> >>
  /\ pending.args.hasFields
  /\ pending.args.fields = << <<"priority", str_High>> >>


\* The tracker answered call i over HTTP with a 2xx status and a body that is
\* empty or white space.
EmptySuccess(i) ==
  /\ calls[i].backend = "datacenter"
  /\ worlds[i].net
  /\ worlds[i].status >= 200 /\ worlds[i].status < 300
  /\ ~worlds[i].body.json
  /\ \A k \in 1..Len(worlds[i].body.chars) : worlds[i].body.chars[k] \in {" ", "\t", "\n"}

\* C23: a Direct-API call answered 2xx with an empty or white-space body does
\* not fail, and its result is the empty object in one text block.
C23_EmptyBodyIsEmptyObject ==
  /\ \A i \in 1..Len(calls) : EmptySuccess(i) => calls[i].ok
  /\ (pc = "after" /\ EmptySuccess(Len(calls)))
       => /\ res.hasContent
          /\ Len(res.content) = 1
          /\ res.content[1].type = "text"
          /\ res.content[1].text.json
          /\ res.content[1].text.obj = EmptyObj

\* An edit answered with the last 2xx status and two blanks.
C23_Witness ==
  /\ pc = "after"
  /\ pending.name = "editJiraIssue"
  /\ EmptySuccess(Len(calls))
  /\ worlds[Len(calls)].status = 299
  /\ worlds[Len(calls)].body.chars = str_blank
  /\ res = McpEnvelope(EmptyObj)


\* p without the slashes at its end.
RECURSIVE NoTrailingSlash(_)
NoTrailingSlash(p) ==
  IF p # <<>> /\ p[Len(p)] = "/" THEN NoTrailingSlash(SubSeq(p, 1, Len(p) - 1)) ELSE p

\* C24: the path of a Direct-API request is the path of the base URL, then
\* /rest/api/2/, then the endpoint, with one slash at the join: whatever
\* slashes the base URL ends with, none is doubled and none is missing.
C24_PathJoinedWithOneSlash ==
  \A i \in 1..Len(http) :
    http[i].path =
      NoTrailingSlash(Tail(Trim(env.JIRA_BASE_URL)))
        \o <<"/","rest","/","api","/","2","/">>
        \o RestCall(calls[Len(calls)].name, calls[Len(calls)].args).endpoint


\* C25: a Local run issues its commands in this order, each once, whatever
\* the exits of the earlier ones: fetch; checkout of the default branch; its
\* creation, only if that checkout failed; pull of the default branch; the
\* probe of the target; then checkout of the target if the probe found it,
\* creation otherwise. Nothing is issued again after failing.
C25_LocalCommandOrder ==
  branch.git # <<>>
    => LET log == branch.git
           n == Len(log)
       IN /\ [i \in 1..n |-> log[i].verb] =
               <<"fetch", "checkout">>
                 \o (IF steps.checkout THEN <<>> ELSE <<"checkout -b">>)
                 \o <<"pull", "branch --list">>
                 \o <<IF steps.probe = "found" THEN "checkout" ELSE "checkout -b">>
          /\ \A i \in 2..(n - 2) : log[i].arg = log[2].arg
          /\ log[n].arg = log[n - 1].arg

\* Every command before the probe failed, the probe found the branch: six
\* commands were issued.
C25_Witness ==
  /\ pc = "done"
  /\ ~steps.fetch /\ ~steps.checkout /\ ~steps.create /\ ~steps.pull
  /\ steps.probe = "found"
  /\ Len(branch.git) = 6
  /\ branch.git[6].verb = "checkout"


\* C26: a Remote run sends the read of the default branch first and once;
\* it sends the write, once, only when the read succeeded, to the same
\* repository and with the commit the read returned; a failed read is
\* followed by nothing; and no failure leaves the run.
C26_RemoteReadThenWrite ==
  branch.hub # <<>>
    => LET log == branch.hub
       IN /\ log[1].method = "GET"
          /\ Len(log) <= 2
          /\ Len(log) = 2 <=> hubw.read = "ok"
          /\ Len(log) = 2
               => /\ log[2].method = "POST"
                  /\ log[2].repo = log[1].repo
                  /\ log[2].sha = hubw.sha
          /\ ~branch.raised /\ ~branch.threw

\* The read failed and nothing followed it.
C26_Witness ==
  /\ pc = "done"
  /\ hubw.read = "fail"
  /\ Len(branch.hub) = 1
  /\ outcome.kind = "return"


\* C27: with handlers in flight together, a handler that starts while another
\* still awaits the connection setup does not put its request on the shared
\* Cloud client: every request sent while a setup is awaited was sent on a
\* client whose setup had completed.
C27_NoRequestBeforeConnected ==
  \A h \in Handlers :
    (handlers[h].sent /\ \E g \in Handlers \ {h} : handlers[g].at = "connect")
      => handlers[h].connected


\* C28: the createJiraIssueWithBranch envelope says success only for a
\* backend result without an error flag: when the createJiraIssue result is
\* flagged isError or carries an error field, the envelope returned to the
\* caller does not have success true.
C28_SuccessOnlyWithoutErrorFlag ==
  (Normalised /\ Flagged(res)) => ~outcome.envelope.success


\* C29: every branch name handed to a git command or to the creation of a
\* ref through the hosting API is a non-empty string, whatever the issue key
\* and the custom name (absent, blank, or one that sanitizes to nothing).
C29_BranchNameNotEmpty ==
  \A n \in NamesUsed : n # <<>>


\* The value an object kept as <<key, value>> pairs has under a key.
ValueAt(obj, k) ==
  IF \E i \in 1..Len(obj) : obj[i][1] = k
  THEN obj[CHOOSE i \in 1..Len(obj) : obj[i][1] = k][2]
  ELSE Undefined

\* C30: on the Direct API the body posted for createJiraIssue has the
\* project key, the issue type name and the summary of the call's arguments,
\* whatever the additional-fields map holds.
C30_RequiredFieldsKept ==
  \A i \in 1..Len(http) :
    (pending.name = "createJiraIssue" /\ http[i].method = "POST")
      => /\ ValueAt(http[i].data, "project") = pending.args.projectKey
         /\ ValueAt(http[i].data, "issuetype") = pending.args.issueTypeName
         /\ ValueAt(http[i].data, "summary") = pending.args.summary

====
